---- MODULE Spec2Model ----
(***************************************************************************)
(* FillForge: the renderer's editing state (App component), its render     *)
(* passes, draft store, export flow and form-field commits, together with  *)
(* the save collaborator of the Electron main process.                     *)
(*                                                                         *)
(* Every asynchronous handler is a process: one action per synchronous     *)
(* segment (from an event or a resolved await up to the next await).       *)
(* Screen lengths are exact rationals <<n, d>>; the render scale is kept   *)
(* in slider steps of 0.05 (21 is 1.05).                                   *)
(***************************************************************************)
EXTENDS Integers, Sequences, FiniteSets, TLC

VARIABLES
  \* render state (refs and state of App)
  renderTokenRef, renders, container, pageElementsRef, pageViewportsRef,
  thumbnails, isRendering, pageCount,
  \* document and draft store
  pdfBytes, scale, lastScaleRef, drafts, selectedDraftId, draftSeq, isSigned,
  \* tool and signing settings, messages, form fields
  activeTool, signatureDataUrl, certificateData, includeVisualSignature,
  signError, statusMessage, formFields, fieldNameDraft,
  \* gestures
  textFieldDragRef, textFieldDraft, textDragRef, textDraftBox, dragStateRef,
  \* asynchronous handlers in flight
  exports, commits,
  \* the preload bridge and the main process (save collaborator)
  pdfApi, allowedWritePaths, disk,
  \* the main process: app.isPackaged negated, and the IPC calls it has
  \* received, each with its request, position, effects and reply (the
  \* specification of the PDF primitives also logs the pdfUtils calls here,
  \* each with its arguments and its result)
  isDev, calls,
  \* history: every byte stream the export handed to a later step
  handed

renderVars == <<renderTokenRef, renders, container, pageElementsRef,
                pageViewportsRef, thumbnails, isRendering, pageCount>>
docVars == <<pdfBytes, scale, lastScaleRef, drafts, selectedDraftId, draftSeq,
             isSigned>>
uiVars == <<activeTool, signatureDataUrl, certificateData,
            includeVisualSignature, signError, statusMessage, formFields,
            fieldNameDraft>>
gestureVars == <<textFieldDragRef, textFieldDraft, textDragRef, textDraftBox,
                 dragStateRef>>
procVars == <<exports, commits>>
mainVars == <<pdfApi, allowedWritePaths, disk, isDev, calls>>
vars == <<renderVars, docVars, uiVars, gestureVars, procVars, mainVars, handed>>

----------------------------------------------------------------------------
(* Bounds of the model *)

\* render requests (renderPdf calls) in one behaviour of the render specification
MaxRenders == 2
\* drafts created, handleExport calls and form-field commits in one behaviour
\* of the export specification
MaxDrafts == 2
MaxExports == 1
MaxCommits == 1
\* handleExport calls, and form-field commits, in one behaviour of the
\* overlap specification
MaxInFlight == 2
\* zoom changes in one behaviour of the geometry specification
MaxZooms == 2

----------------------------------------------------------------------------
(* Exact rational arithmetic for screen and PDF lengths *)

RECURSIVE Gcd(_, _)
Gcd(a, b) == IF b = 0 THEN a ELSE Gcd(b, a % b)

IAbs(n) == IF n < 0 THEN -n ELSE n

Norm(n, d) ==
  LET g == Gcd(IAbs(n), IAbs(d))
      s == IF d < 0 THEN -1 ELSE 1
  IN  <<(s * n) \div g, (s * d) \div g>>

R(n) == <<n, 1>>
RAdd(a, b) == Norm(a[1] * b[2] + b[1] * a[2], a[2] * b[2])
RSub(a, b) == Norm(a[1] * b[2] - b[1] * a[2], a[2] * b[2])
RMul(a, b) == Norm(a[1] * b[1], a[2] * b[2])
RDiv(a, b) == Norm(a[1] * b[2], a[2] * b[1])
RLe(a, b) == a[1] * b[2] <= b[1] * a[2]
RLt(a, b) == a[1] * b[2] < b[1] * a[2]
RMin(a, b) == IF RLe(a, b) THEN a ELSE b
RMax(a, b) == IF RLe(a, b) THEN b ELSE a
RAbs(a) == <<IAbs(a[1]), a[2]>>

\* const clamp = (value, min, max) => Math.min(Math.max(value, min), max)
clamp(value, min, max) == RMin(RMax(value, min), max)

----------------------------------------------------------------------------
(* PDF byte streams.  A byte stream is the document it serialises:          *)
(*   doc   which file it came from (0: no bytes, pdfBytes is null)          *)
(*   hdr   whether its first four bytes are %PDF                            *)
(*   pages, pageW, pageH   page count and page size in PDF units            *)
(*   fields  names of the interactive fields of the file as loaded          *)
(*   ops   the mutations applied to it since it was loaded, in order        *)
(*   sig   whether a digital signature has been spliced in                  *)

NoBytes ==
  [doc |-> 0, hdr |-> FALSE, pages |-> 0, pageW |-> 0, pageH |-> 0,
   fields |-> {}, ops |-> <<>>, sig |-> FALSE]

\* slider step of the zoom control: scale = steps * 0.05
ScaleUnit == 20
\* useState(1.05)
InitialScale == 21

\* LETTER_PAGE = [612, 792]
LetterW == 612
LetterH == 792

\* createBlankPdf: one Letter page, no fields
BlankPdf ==
  [doc |-> 1, hdr |-> TRUE, pages |-> 1, pageW |-> LetterW, pageH |-> LetterH,
   fields |-> {}, ops |-> <<>>, sig |-> FALSE]

----------------------------------------------------------------------------
(* Viewports and page elements *)

\* page.getViewport({ scale }): the page's pixel size at that scale; `by` is
\* the token of the render pass that captured it
Viewport(bytes, sc, token) ==
  [by |-> token, scale |-> sc,
   width |-> Norm(bytes.pageW * sc, ScaleUnit),
   height |-> Norm(bytes.pageH * sc, ScaleUnit),
   pageH |-> bytes.pageH]

NoViewport == [by |-> 0, scale |-> 0, width |-> R(0), height |-> R(0), pageH |-> 0]
NoElement == [by |-> 0, pageIndex |-> -1, width |-> R(0), height |-> R(0)]

\* the page wrapper and canvas a render pass creates for one page
PageElement(p) ==
  [by |-> p.token, pageIndex |-> p.idx,
   width |-> Viewport(p.bytes, p.scale, p.token).width,
   height |-> Viewport(p.bytes, p.scale, p.token).height]

\* array[index] = value on a JavaScript array (holes are filled with `hole`)
SetAt(arr, index, value, hole) ==
  [i \in 1..(IF index + 1 > Len(arr) THEN index + 1 ELSE Len(arr)) |->
     IF i = index + 1 THEN value
     ELSE IF i <= Len(arr) THEN arr[i] ELSE hole]

\* pageViewportsRef.current[pageIndex], undefined when absent
ViewportAt(pageIndex) ==
  IF pageIndex + 1 \in 1..Len(pageViewportsRef)
  THEN pageViewportsRef[pageIndex + 1] ELSE NoViewport

HasViewport(pageIndex) == ViewportAt(pageIndex).by # 0

----------------------------------------------------------------------------
(* renderPdf and renderThumbnails *)

\* a render pass: the state of one renderPdf call
NewPass(bytes, sc, token) ==
  [token |-> token, bytes |-> bytes, scale |-> sc, pc |-> "load", idx |-> 0,
   viewports |-> <<>>, results |-> <<>>]

\* renderPdf(bytes) up to its first await (getDocument)
renderPdf(bytes, sc) ==
  IF bytes.doc = 0
  THEN UNCHANGED <<renderTokenRef, renders, isRendering>>
  ELSE /\ renderTokenRef' = renderTokenRef + 1
       /\ renders' = Append(renders, NewPass(bytes, sc, renderTokenRef + 1))
       /\ isRendering' = TRUE

\* a renderPdf call that has not yet reached the end of its page loop
PassInFlight(t) == renders[t].pc \in {"load", "getPage", "render"}

\* after `await loadingTask.promise`: the only check of the token in renderPdf
renderPdf_afterLoad(t) ==
  /\ t \in 1..Len(renders)
  /\ renders[t].pc = "load"
  /\ IF ~renders[t].bytes.hdr
     THEN \* getDocument rejects: the call ends with an unhandled rejection
          /\ renders' = [renders EXCEPT ![t].pc = "failed"]
          /\ UNCHANGED <<container, pageElementsRef>>
     ELSE IF renderTokenRef # renders[t].token
     THEN /\ renders' = [renders EXCEPT ![t].pc = "discarded"]
          /\ UNCHANGED <<container, pageElementsRef>>
     ELSE /\ container' = <<>>
          /\ pageElementsRef' = <<>>
          /\ renders' = [renders EXCEPT ![t].pc = "getPage", ![t].idx = 0]
  /\ UNCHANGED <<renderTokenRef, pageViewportsRef, thumbnails, isRendering,
                 pageCount>>
  /\ UNCHANGED <<docVars, uiVars, gestureVars, procVars, mainVars, handed>>

\* after `await pdfDoc.getPage(pageIndex + 1)`: the canvas is appended to the
\* container, then page.render is awaited
renderPdf_afterGetPage(t) ==
  /\ t \in 1..Len(renders)
  /\ renders[t].pc = "getPage"
  /\ container' = Append(container, PageElement(renders[t]))
  /\ renders' = [renders EXCEPT ![t].pc = "render"]
  /\ UNCHANGED <<renderTokenRef, pageElementsRef, pageViewportsRef, thumbnails,
                 isRendering, pageCount>>
  /\ UNCHANGED <<docVars, uiVars, gestureVars, procVars, mainVars, handed>>

\* after `await page.render(...)`: the page is recorded; after the last page
\* the viewports are published and renderThumbnails starts
renderPdf_afterRender(t) ==
  /\ t \in 1..Len(renders)
  /\ renders[t].pc = "render"
  /\ LET p == renders[t]
         el == PageElement(p)
         vps == SetAt(p.viewports, p.idx,
                      Viewport(p.bytes, p.scale, p.token), NoViewport)
     IN  /\ pageElementsRef' = SetAt(pageElementsRef, p.idx, el, NoElement)
         /\ IF p.idx + 1 < p.bytes.pages
            THEN /\ renders' = [renders EXCEPT ![t].pc = "getPage",
                                               ![t].idx = p.idx + 1,
                                               ![t].viewports = vps]
                 /\ UNCHANGED <<pageViewportsRef, pageCount, isRendering>>
            ELSE /\ pageViewportsRef' = vps
                 /\ pageCount' = p.bytes.pages
                 /\ isRendering' = FALSE
                 /\ renders' = [renders EXCEPT ![t].pc = "thumbGetPage",
                                               ![t].idx = 0,
                                               ![t].viewports = vps]
  /\ UNCHANGED <<renderTokenRef, container, thumbnails>>
  /\ UNCHANGED <<docVars, uiVars, gestureVars, procVars, mainVars, handed>>

\* renderThumbnails, after `await pdfDoc.getPage(pageIndex + 1)`
renderThumbnails_afterGetPage(t) ==
  /\ t \in 1..Len(renders)
  /\ renders[t].pc = "thumbGetPage"
  /\ renders' = [renders EXCEPT ![t].pc = "thumbRender"]
  /\ UNCHANGED <<renderTokenRef, container, pageElementsRef, pageViewportsRef,
                 thumbnails, isRendering, pageCount>>
  /\ UNCHANGED <<docVars, uiVars, gestureVars, procVars, mainVars, handed>>

\* renderThumbnails, after `await page.render(...)`: the token is checked
\* after every page
renderThumbnails_afterRender(t) ==
  /\ t \in 1..Len(renders)
  /\ renders[t].pc = "thumbRender"
  /\ LET p == renders[t]
         res == Append(p.results, [by |-> p.token, pageIndex |-> p.idx])
     IN  IF renderTokenRef # p.token
         THEN /\ renders' = [renders EXCEPT ![t].pc = "done"]
              /\ UNCHANGED thumbnails
         ELSE IF p.idx + 1 < p.bytes.pages
         THEN /\ renders' = [renders EXCEPT ![t].pc = "thumbGetPage",
                                            ![t].idx = p.idx + 1,
                                            ![t].results = res]
              /\ UNCHANGED thumbnails
         ELSE /\ thumbnails' = res
              /\ renders' = [renders EXCEPT ![t].pc = "done", ![t].results = res]
  /\ UNCHANGED <<renderTokenRef, container, pageElementsRef, pageViewportsRef,
                 isRendering, pageCount>>
  /\ UNCHANGED <<docVars, uiVars, gestureVars, procVars, mainVars, handed>>

----------------------------------------------------------------------------
(* Tools, drafts and the draft store *)

PAN == "pan"
TEXT == "text"
TEXT_FIELD == "text-field"
CHECKBOX == "checkbox"
SIGNATURE == "signature"
TOOL == {PAN, TEXT, TEXT_FIELD, CHECKBOX, SIGNATURE}

\* placementDefaults
DefaultCheckboxSize == 28
DefaultSignatureWidth == 200
DefaultSignatureHeight == 80
DefaultTextFieldWidth == 220
DefaultTextFieldHeight == 36
DefaultOtherWidth == 140
DefaultOtherHeight == 40

\* placementDefaults[activeTool] || { width: 140, height: 40 }
placementDefaults(tool) ==
  IF tool = TEXT_FIELD
  THEN [width |-> R(DefaultTextFieldWidth), height |-> R(DefaultTextFieldHeight)]
  ELSE IF tool = CHECKBOX
  THEN [width |-> R(DefaultCheckboxSize), height |-> R(DefaultCheckboxSize)]
  ELSE IF tool = SIGNATURE
  THEN [width |-> R(DefaultSignatureWidth), height |-> R(DefaultSignatureHeight)]
  ELSE [width |-> R(DefaultOtherWidth), height |-> R(DefaultOtherHeight)]

\* absent gesture state (a ref holding null)
NoDrag == [active |-> FALSE, pageIndex |-> 0, startX |-> R(0), startY |-> R(0)]
NoBox ==
  [present |-> FALSE, pageIndex |-> 0, x |-> R(0), y |-> R(0),
   width |-> R(0), height |-> R(0)]
NoDraft ==
  [id |-> 0, type |-> PAN, pageIndex |-> 0, x |-> R(0), y |-> R(0),
   width |-> R(0), height |-> R(0), fieldName |-> "", dataUrl |-> FALSE,
   size |-> 0]
NoDragState ==
  [active |-> FALSE, id |-> 0, draft |-> NoDraft, mode |-> "", handle |-> <<>>]

\* a canvas of that page is in the viewer (event.target.closest('canvas'))
CanvasAt(k) == k \in 1..Len(container)

\* the pointer is over the canvas it hits
OnCanvas(k, px, py) ==
  /\ CanvasAt(k)
  /\ RLe(R(0), px) /\ RLe(px, container[k].width)
  /\ RLe(R(0), py) /\ RLe(py, container[k].height)

\* a defect: the ratio is taken the wrong way round
rescaleDrafts_inverted(ds, sc, lastScale) ==
  IF Len(ds) # 0 /\ lastScale # 0 /\ sc # lastScale
  THEN [i \in 1..Len(ds) |->
          [ds[i] EXCEPT !.x = RMul(@, Norm(lastScale, sc)),
                        !.y = RMul(@, Norm(lastScale, sc)),
                        !.width = RMul(@, Norm(lastScale, sc)),
                        !.height = RMul(@, Norm(lastScale, sc))]]
  ELSE ds

\* a defect: the drafts follow the zoom only when it grows
rescaleDrafts_growing(ds, sc, lastScale) ==
  IF Len(ds) # 0 /\ lastScale # 0 /\ sc > lastScale
  THEN [i \in 1..Len(ds) |->
          [ds[i] EXCEPT !.x = RMul(@, Norm(sc, lastScale)),
                        !.y = RMul(@, Norm(sc, lastScale)),
                        !.width = RMul(@, Norm(sc, lastScale)),
                        !.height = RMul(@, Norm(sc, lastScale))]]
  ELSE ds

\* the effect on [drafts.length, scale]: rescale every draft by
\* scale / lastScaleRef.current
rescaleDrafts(ds, sc, lastScale) ==
  IF Len(ds) # 0 /\ lastScale # 0 /\ sc # lastScale
  THEN [i \in 1..Len(ds) |->
          [ds[i] EXCEPT !.x = RMul(@, Norm(sc, lastScale)),
                        !.y = RMul(@, Norm(sc, lastScale)),
                        !.width = RMul(@, Norm(sc, lastScale)),
                        !.height = RMul(@, Norm(sc, lastScale))]]
  ELSE ds

\* the zoom slider: setScale, then the rescale effect and the render effect
\* (renderPdf depends on scale)
setScale(sc) ==
  /\ sc # scale
  /\ scale' = sc
  /\ drafts' = rescaleDrafts(drafts, sc, lastScaleRef)
  /\ lastScaleRef' = sc
  /\ renderPdf(pdfBytes, sc)
  /\ UNCHANGED <<container, pageElementsRef, pageViewportsRef, thumbnails,
                 pageCount>>
  /\ UNCHANGED <<pdfBytes, selectedDraftId, draftSeq, isSigned>>
  /\ UNCHANGED <<uiVars, gestureVars, procVars, mainVars, handed>>

\* the effect on [activeTool]: leaving the drag-to-create tools drops their
\* gesture state
toolChangeEffect(tool) ==
  IF tool = TEXT_FIELD \/ tool = TEXT
  THEN UNCHANGED <<textFieldDragRef, textFieldDraft, textDragRef, textDraftBox>>
  ELSE /\ textFieldDragRef' = NoDrag
       /\ textFieldDraft' = NoBox
       /\ textDragRef' = NoDrag
       /\ textDraftBox' = NoBox

setActiveTool(tool) ==
  /\ tool # activeTool
  /\ activeTool' = tool
  /\ toolChangeEffect(tool)
  /\ UNCHANGED <<signatureDataUrl, certificateData, includeVisualSignature,
                 signError, statusMessage, formFields, fieldNameDraft>>
  /\ UNCHANGED <<dragStateRef, renderVars, docVars, procVars, mainVars, handed>>

\* SignatureModal onSave
setSignatureDataUrl ==
  /\ ~isSigned
  /\ ~signatureDataUrl
  /\ signatureDataUrl' = TRUE
  /\ UNCHANGED <<activeTool, certificateData, includeVisualSignature, signError,
                 statusMessage, formFields, fieldNameDraft>>
  /\ UNCHANGED <<renderVars, docVars, gestureVars, procVars, mainVars, handed>>

\* handleCanvasClick: click placement of a checkbox or a signature
handleCanvasClick(k, clickX, clickY) ==
  /\ pdfBytes.doc # 0 /\ ~isSigned
  /\ IF activeTool = PAN
     THEN /\ selectedDraftId' = 0
          /\ UNCHANGED <<drafts, draftSeq>>
     ELSE IF activeTool = TEXT_FIELD \/ activeTool = TEXT
     THEN UNCHANGED <<drafts, draftSeq, selectedDraftId>>
     ELSE IF ~OnCanvas(k, clickX, clickY)
     THEN UNCHANGED <<drafts, draftSeq, selectedDraftId>>
     ELSE LET pageIndex == container[k].pageIndex
              viewport == ViewportAt(pageIndex)
              width == placementDefaults(activeTool).width
              height == placementDefaults(activeTool).height
              maxX == RSub(viewport.width, width)
              maxY == RSub(viewport.height, height)
              draft ==
                [id |-> draftSeq + 1, type |-> activeTool,
                 pageIndex |-> pageIndex,
                 x |-> clamp(RSub(clickX, RDiv(width, R(2))), R(0), maxX),
                 y |-> clamp(RSub(clickY, RDiv(height, R(2))), R(0), maxY),
                 width |-> width, height |-> height,
                 fieldName |-> IF activeTool = CHECKBOX THEN fieldNameDraft ELSE "",
                 dataUrl |-> (activeTool = SIGNATURE /\ signatureDataUrl),
                 size |-> 0]
          IN  IF ~HasViewport(pageIndex)
                 \/ (activeTool = SIGNATURE /\ ~signatureDataUrl)
              THEN UNCHANGED <<drafts, draftSeq, selectedDraftId>>
              ELSE /\ drafts' = Append(drafts, draft)
                   /\ draftSeq' = draftSeq + 1
                   /\ selectedDraftId' = draft.id
  /\ UNCHANGED <<pdfBytes, scale, lastScaleRef, isSigned>>
  /\ UNCHANGED <<renderVars, uiVars, gestureVars, procVars, mainVars, handed>>

\* handleViewerPointerDown: start of a drag-to-create gesture
handleViewerPointerDown(k, startX, startY) ==
  /\ pdfBytes.doc # 0 /\ ~isSigned
  /\ activeTool = TEXT_FIELD \/ activeTool = TEXT
  /\ OnCanvas(k, startX, startY)
  /\ LET drag == [active |-> TRUE, pageIndex |-> container[k].pageIndex,
                  startX |-> startX, startY |-> startY]
         box == [present |-> TRUE, pageIndex |-> container[k].pageIndex,
                 x |-> startX, y |-> startY, width |-> R(1), height |-> R(1)]
     IN  IF activeTool = TEXT_FIELD
         THEN /\ textFieldDragRef' = drag
              /\ textFieldDraft' = box
              /\ UNCHANGED <<textDragRef, textDraftBox>>
         ELSE /\ textDragRef' = drag
              /\ textDraftBox' = box
              /\ UNCHANGED <<textFieldDragRef, textFieldDraft>>
  /\ UNCHANGED <<dragStateRef, renderVars, docVars, uiVars, procVars, mainVars,
                 handed>>

\* the preview rectangle of a drag-to-create gesture at pointer (px, py)
dragBox(drag, viewport, px, py) ==
  LET x == clamp(px, R(0), viewport.width)
      y == clamp(py, R(0), viewport.height)
  IN  [present |-> TRUE, pageIndex |-> drag.pageIndex,
       x |-> RMin(drag.startX, x), y |-> RMin(drag.startY, y),
       width |-> RAbs(RSub(x, drag.startX)),
       height |-> RAbs(RSub(y, drag.startY))]

handleTextFieldPointerMove(px, py) ==
  /\ textFieldDragRef.active
  /\ HasViewport(textFieldDragRef.pageIndex)
  /\ textFieldDraft' =
       dragBox(textFieldDragRef, ViewportAt(textFieldDragRef.pageIndex), px, py)
  /\ UNCHANGED <<textFieldDragRef, textDragRef, textDraftBox, dragStateRef>>
  /\ UNCHANGED <<renderVars, docVars, uiVars, procVars, mainVars, handed>>

\* Math.min edge below which a dragged text field is dropped
MinDragSize == 8

handleTextFieldPointerUp ==
  /\ textFieldDragRef.active
  /\ textFieldDragRef' = NoDrag
  /\ textFieldDraft' = NoBox
  /\ LET draftState == textFieldDraft
     IN  IF ~draftState.present
            \/ RLt(draftState.width, R(MinDragSize))
            \/ RLt(draftState.height, R(MinDragSize))
         THEN UNCHANGED <<drafts, draftSeq, selectedDraftId>>
         ELSE /\ drafts' = Append(drafts,
                   [id |-> draftSeq + 1, type |-> TEXT_FIELD,
                    pageIndex |-> draftState.pageIndex,
                    x |-> draftState.x, y |-> draftState.y,
                    width |-> draftState.width, height |-> draftState.height,
                    fieldName |-> fieldNameDraft, dataUrl |-> FALSE, size |-> 0])
              /\ draftSeq' = draftSeq + 1
              /\ selectedDraftId' = draftSeq + 1
  /\ UNCHANGED <<textDragRef, textDraftBox, dragStateRef>>
  /\ UNCHANGED <<pdfBytes, scale, lastScaleRef, isSigned>>
  /\ UNCHANGED <<renderVars, uiVars, procVars, mainVars, handed>>

handleTextPointerMove(px, py) ==
  /\ textDragRef.active
  /\ HasViewport(textDragRef.pageIndex)
  /\ textDraftBox' = dragBox(textDragRef, ViewportAt(textDragRef.pageIndex), px, py)
  /\ UNCHANGED <<textFieldDragRef, textFieldDraft, textDragRef, dragStateRef>>
  /\ UNCHANGED <<renderVars, docVars, uiVars, procVars, mainVars, handed>>

\* minimum size of a free-hand text box, and the limits of its font size
MinTextWidth == 140
MinTextHeight == 32
MinFontSize == 10
MaxFontSize == 36

\* Math.round of a non-negative rational
Round(a) == (2 * a[1] + a[2]) \div (2 * a[2])

IClamp(v, lo, hi) == IF v < lo THEN lo ELSE IF v > hi THEN hi ELSE v

handleTextPointerUp ==
  /\ textDragRef.active
  /\ textDragRef' = NoDrag
  /\ textDraftBox' = NoBox
  /\ LET drag == textDragRef
         draftState == textDraftBox
         viewport == ViewportAt(drag.pageIndex)
         width == RMax(IF draftState.present THEN draftState.width ELSE R(0),
                       R(MinTextWidth))
         height == RMax(IF draftState.present THEN draftState.height ELSE R(0),
                        R(MinTextHeight))
         startX == IF draftState.present THEN draftState.x ELSE drag.startX
         startY == IF draftState.present THEN draftState.y ELSE drag.startY
         maxX == IF HasViewport(drag.pageIndex)
                 THEN RMax(RSub(viewport.width, width), R(0)) ELSE R(0)
         maxY == IF HasViewport(drag.pageIndex)
                 THEN RMax(RSub(viewport.height, height), R(0)) ELSE R(0)
     IN  /\ drafts' = Append(drafts,
              [id |-> draftSeq + 1, type |-> TEXT, pageIndex |-> drag.pageIndex,
               x |-> clamp(startX, R(0), maxX), y |-> clamp(startY, R(0), maxY),
               width |-> width, height |-> height,
               fieldName |-> "", dataUrl |-> FALSE,
               size |-> IClamp(Round(RMul(height, Norm(6, 10))),
                               MinFontSize, MaxFontSize)])
         /\ draftSeq' = draftSeq + 1
         /\ selectedDraftId' = draftSeq + 1
  /\ UNCHANGED <<textFieldDragRef, textFieldDraft, dragStateRef>>
  /\ UNCHANGED <<pdfBytes, scale, lastScaleRef, isSigned>>
  /\ UNCHANGED <<renderVars, uiVars, procVars, mainVars, handed>>

\* clampDraft: fit a moved or resized draft into its page's viewport
clampDraft(next) ==
  LET viewport == ViewportAt(next.pageIndex)
      width == RMin(next.width, viewport.width)
      height == RMin(next.height, viewport.height)
      maxX == RMax(R(0), RSub(viewport.width, width))
      maxY == RMax(R(0), RSub(viewport.height, height))
  IN  IF ~HasViewport(next.pageIndex) THEN next
      ELSE [next EXCEPT !.width = width, !.height = height,
                        !.x = clamp(next.x, R(0), maxX),
                        !.y = clamp(next.y, R(0), maxY)]

\* handleDraftPointerDown (handle = <<>>) and handleDraftHandlePointerDown; a
\* handle is the sequence of its letters, <<"s", "e">> for 'se'
handleDraftPointerDown(i, handle) ==
  /\ ~isSigned
  /\ i \in 1..Len(drafts)
  /\ handle # <<>> => selectedDraftId = drafts[i].id
  /\ selectedDraftId' = drafts[i].id
  /\ dragStateRef' = [active |-> TRUE, id |-> drafts[i].id, draft |-> drafts[i],
                      mode |-> IF handle = <<>> THEN "move" ELSE "resize",
                      handle |-> handle]
  /\ UNCHANGED <<textFieldDragRef, textFieldDraft, textDragRef, textDraftBox>>
  /\ UNCHANGED <<pdfBytes, scale, lastScaleRef, drafts, draftSeq, isSigned>>
  /\ UNCHANGED <<renderVars, uiVars, procVars, mainVars, handed>>

\* minimum edge of a resized draft
MinCheckboxSize == 18
MinDraftSize == 36

Includes(handle, c) == \E j \in 1..Len(handle) : handle[j] = c

\* the rectangle handleDraftPointerMove computes before clamping
draggedDraft(drag, deltaX, deltaY) ==
  LET d == drag.draft
      minSize == R(IF d.type = CHECKBOX THEN MinCheckboxSize ELSE MinDraftSize)
      e == IF Includes(drag.handle, "e")
           THEN [d EXCEPT !.width = RMax(minSize, RAdd(d.width, deltaX))] ELSE d
      s == IF Includes(drag.handle, "s")
           THEN [e EXCEPT !.height = RMax(minSize, RAdd(d.height, deltaY))] ELSE e
      w == IF Includes(drag.handle, "w")
           THEN LET newWidth == RMax(minSize, RSub(d.width, deltaX))
                IN  [s EXCEPT !.x = RAdd(d.x, RSub(d.width, newWidth)),
                              !.width = newWidth]
           ELSE s
      n == IF Includes(drag.handle, "n")
           THEN LET newHeight == RMax(minSize, RSub(d.height, deltaY))
                IN  [w EXCEPT !.y = RAdd(d.y, RSub(d.height, newHeight)),
                              !.height = newHeight]
           ELSE w
  IN  IF drag.mode = "move"
      THEN [d EXCEPT !.x = RAdd(d.x, deltaX), !.y = RAdd(d.y, deltaY)]
      ELSE n

\* a defect: the dragged draft is raised to the end of the list
handleDraftPointerMove_raising(deltaX, deltaY) ==
  /\ dragStateRef.active
  /\ LET next == clampDraft(draggedDraft(dragStateRef, deltaX, deltaY))
         rest == SelectSeq(drafts, LAMBDA d : d.id # dragStateRef.id)
     IN  drafts' = IF Len(rest) = Len(drafts) THEN drafts
                   ELSE Append(rest, next)
  /\ UNCHANGED <<pdfBytes, scale, lastScaleRef, selectedDraftId, draftSeq,
                 isSigned>>
  /\ UNCHANGED <<renderVars, uiVars, gestureVars, procVars, mainVars, handed>>

\* a defect: a dragged draft that is not in the list any more is put back
handleDraftPointerMove_upserting(deltaX, deltaY) ==
  /\ dragStateRef.active
  /\ LET next == clampDraft(draggedDraft(dragStateRef, deltaX, deltaY))
     IN  drafts' = IF \E i \in 1..Len(drafts) : drafts[i].id = dragStateRef.id
                   THEN [i \in 1..Len(drafts) |->
                           IF drafts[i].id = dragStateRef.id THEN next
                           ELSE drafts[i]]
                   ELSE Append(drafts, next)
  /\ UNCHANGED <<pdfBytes, scale, lastScaleRef, selectedDraftId, draftSeq,
                 isSigned>>
  /\ UNCHANGED <<renderVars, uiVars, gestureVars, procVars, mainVars, handed>>

handleDraftPointerMove(deltaX, deltaY) ==
  /\ dragStateRef.active
  /\ LET next == clampDraft(draggedDraft(dragStateRef, deltaX, deltaY))
     IN  drafts' = [i \in 1..Len(drafts) |->
                      IF drafts[i].id = dragStateRef.id THEN next ELSE drafts[i]]
  /\ UNCHANGED <<pdfBytes, scale, lastScaleRef, selectedDraftId, draftSeq,
                 isSigned>>
  /\ UNCHANGED <<renderVars, uiVars, gestureVars, procVars, mainVars, handed>>

handleDraftPointerUp ==
  /\ dragStateRef.active
  /\ dragStateRef' = NoDragState
  /\ UNCHANGED <<textFieldDragRef, textFieldDraft, textDragRef, textDraftBox>>
  /\ UNCHANGED <<renderVars, docVars, uiVars, procVars, mainVars, handed>>

\* removeDraft, from the "Remove element" button of the selected draft
removeDraft(draftId) ==
  /\ ~isSigned
  /\ \E i \in 1..Len(drafts) : drafts[i].id = draftId
  /\ selectedDraftId = draftId
  /\ drafts' = SelectSeq(drafts, LAMBDA d : d.id # draftId)
  /\ selectedDraftId' = 0
  /\ UNCHANGED <<pdfBytes, scale, lastScaleRef, draftSeq, isSigned>>
  /\ UNCHANGED <<renderVars, uiVars, gestureVars, procVars, mainVars, handed>>

\* updateDraft: merge the updates into the draft of that id, in place
updateDraft(draftId, updates) ==
  /\ drafts' = [i \in 1..Len(drafts) |->
                  IF drafts[i].id = draftId
                  THEN [f \in DOMAIN drafts[i] |->
                          IF f \in DOMAIN updates THEN updates[f]
                          ELSE drafts[i][f]]
                  ELSE drafts[i]]
  /\ UNCHANGED <<pdfBytes, scale, lastScaleRef, selectedDraftId, draftSeq,
                 isSigned>>
  /\ UNCHANGED <<renderVars, uiVars, gestureVars, procVars, mainVars, handed>>

\* the "Field name" input of the selected text-field or checkbox draft
renameDraft(draftId, fieldName) ==
  /\ ~isSigned
  /\ selectedDraftId = draftId
  /\ \E i \in 1..Len(drafts) :
        drafts[i].id = draftId /\ drafts[i].type \in {TEXT_FIELD, CHECKBOX}
  /\ updateDraft(draftId, [fieldName |-> fieldName])

\* the size control in the floating toolbar of the selected text draft
resizeText(draftId, size) ==
  /\ ~isSigned
  /\ selectedDraftId = draftId
  /\ \E i \in 1..Len(drafts) : drafts[i].id = draftId /\ drafts[i].type = TEXT
  /\ updateDraft(draftId, [size |-> size])

\* onFocus of the editable text of a text draft
focusDraft(draftId) ==
  /\ \E i \in 1..Len(drafts) : drafts[i].id = draftId /\ drafts[i].type = TEXT
  /\ selectedDraftId # draftId
  /\ selectedDraftId' = draftId
  /\ UNCHANGED <<pdfBytes, scale, lastScaleRef, drafts, draftSeq, isSigned>>
  /\ UNCHANGED <<renderVars, uiVars, gestureVars, procVars, mainVars, handed>>

----------------------------------------------------------------------------
(* The preload bridge (window.pdfApi) and the PDF primitives *)

\* electron/preload.cjs exposes every call; in a browser window.pdfApi is
\* undefined; App also guards each call on its own ("Desktop bridge is out of
\* date"), so a bridge without the newer calls is a third configuration
DesktopBridge ==
  [openPdf |-> TRUE, savePdf |-> TRUE, savePdfPath |-> TRUE, writePdf |-> TRUE,
   openCertificate |-> TRUE, signPdf |-> TRUE]
NoBridge ==
  [openPdf |-> FALSE, savePdf |-> FALSE, savePdfPath |-> FALSE,
   writePdf |-> FALSE, openCertificate |-> FALSE, signPdf |-> FALSE]
OutOfDateBridge ==
  [openPdf |-> TRUE, savePdf |-> TRUE, savePdfPath |-> FALSE, writePdf |-> FALSE,
   openCertificate |-> TRUE, signPdf |-> FALSE]

\* hasPdfHeader: the bytes exist and start with %PDF
hasPdfHeader(bytes) == bytes.doc # 0 /\ bytes.hdr

\* what a primitive returns for outcome "garbage": bytes without the header
Garbage(bytes) == [bytes EXCEPT !.hdr = FALSE]

\* a defect: the page index is used as it comes
resolvePage_unclamped(bytes, pageIndex) == pageIndex

\* resolvePage: pages[Math.min(pageIndex, pages.length - 1)] || pages[0]
resolvePage(bytes, pageIndex) ==
  LET k == IF pageIndex < bytes.pages - 1 THEN pageIndex ELSE bytes.pages - 1
  IN  IF k < 0 THEN 0 ELSE k

\* addTextToPdf, addTextFieldToPdf, addCheckBoxToPdf, addSignatureToPdf: load
\* the bytes, apply one mutation, save
applyOp(bytes, op) ==
  [bytes EXCEPT !.ops = Append(@, [op EXCEPT !.pageIndex = resolvePage(bytes, @)])]

\* viewport.convertToPdfPoint for an unrotated page: undo the scale and flip y
convertToPdfPoint(viewport, x, y) ==
  <<RMul(x, Norm(ScaleUnit, viewport.scale)),
    RSub(R(viewport.pageH), RMul(y, Norm(ScaleUnit, viewport.scale)))>>

NoRect ==
  [ok |-> FALSE, pageIndex |-> 0, x |-> R(0), y |-> R(0), width |-> R(0),
   height |-> R(0)]

\* a defect: the rectangle is taken from the mapped corners as they come,
\* top-left first
rectThrough_topLeft(viewport, draft) ==
  LET p1 == convertToPdfPoint(viewport, draft.x, draft.y)
      p2 == convertToPdfPoint(viewport, RAdd(draft.x, draft.width),
                              RAdd(draft.y, draft.height))
  IN  [ok |-> TRUE, pageIndex |-> draft.pageIndex,
       x |-> p1[1], y |-> p1[2],
       width |-> RSub(p2[1], p1[1]),
       height |-> RSub(p2[2], p1[2])]

\* the rectangle resolveDraftRect computes through a given viewport
rectThrough(viewport, draft) ==
  LET p1 == convertToPdfPoint(viewport, draft.x, draft.y)
      p2 == convertToPdfPoint(viewport, RAdd(draft.x, draft.width),
                              RAdd(draft.y, draft.height))
  IN  [ok |-> TRUE, pageIndex |-> draft.pageIndex,
       x |-> RMin(p1[1], p2[1]), y |-> RMin(p1[2], p2[2]),
       width |-> RAbs(RSub(p2[1], p1[1])),
       height |-> RAbs(RSub(p2[2], p1[2]))]

\* resolveDraftRect: the draft's PDF-space rectangle through the viewport
\* captured for its page, null when there is none
resolveDraftRect(draft) ==
  IF ~HasViewport(draft.pageIndex) THEN NoRect
  ELSE rectThrough(ViewportAt(draft.pageIndex), draft)

DefaultTextSize == 16
TextPadding == 4

\* the mutation handleExport asks for, for one draft and its resolved rectangle
draftOp(draft, rect) ==
  LET size == IF draft.size = 0 THEN DefaultTextSize ELSE draft.size
  IN  IF draft.type = TEXT
      THEN [kind |-> "text", src |-> draft.id, pageIndex |-> rect.pageIndex,
            x |-> RAdd(rect.x, R(TextPadding)),
            y |-> RSub(RAdd(rect.y, rect.height), RMin(R(size), rect.height)),
            width |-> rect.width, height |-> rect.height,
            name |-> "", value |-> ""]
      ELSE IF draft.type = CHECKBOX
      THEN [kind |-> "checkbox", src |-> draft.id, pageIndex |-> rect.pageIndex,
            x |-> rect.x, y |-> rect.y,
            width |-> RMin(rect.width, rect.height),
            height |-> RMin(rect.width, rect.height),
            name |-> draft.fieldName, value |-> ""]
      ELSE [kind |-> draft.type, src |-> draft.id, pageIndex |-> rect.pageIndex,
            x |-> rect.x, y |-> rect.y, width |-> rect.width,
            height |-> rect.height,
            name |-> IF draft.type = TEXT_FIELD THEN draft.fieldName ELSE "",
            value |-> ""]

\* the context string ensurePdf is given after each kind of step
stepContext(type) ==
  IF type = TEXT THEN "adding text"
  ELSE IF type = TEXT_FIELD THEN "adding text field"
  ELSE IF type = CHECKBOX THEN "adding checkbox"
  ELSE IF type = SIGNATURE THEN "adding signature"
  ELSE "signing"

\* a defect: the check lets every byte stream pass
ensurePdf_unchecked(bytes, context) == ""

\* ensurePdf(bytes, context): the error it throws, "" when the bytes pass
ensurePdf(bytes, context) ==
  IF ~hasPdfHeader(bytes) THEN "Invalid PDF data after " \o context \o "." ELSE ""

----------------------------------------------------------------------------
(* Messages *)

NoMessage == [message |-> "", tone |-> ""]
MsgInvalidInput == "PDF data is invalid. Please reopen the document."
MsgDialogFailed == "Save dialog failed. Please try again."
MsgSignUnavailable == "Digital signing is only available in the desktop app."
MsgExportFailed == "Export failed. Please try again or reopen the PDF."
MsgSignFailed == "Failed to sign PDF."
MsgWriteFailed == "Failed to write the PDF. Please try again."
MsgExportComplete == "Export complete."

\* flashStatus(message, tone = 'error')
flashStatus(message, tone) == [message |-> message, tone |-> tone]

\* the 4 s timer of flashStatus
statusTimer ==
  /\ statusMessage # NoMessage
  /\ statusMessage' = NoMessage
  /\ UNCHANGED <<activeTool, signatureDataUrl, certificateData,
                 includeVisualSignature, signError, formFields, fieldNameDraft>>
  /\ UNCHANGED <<renderVars, docVars, gestureVars, procVars, mainVars, handed>>

----------------------------------------------------------------------------
(* Document state updates shared by the handlers *)

\* the names getFormFields reports: the file's fields and those added since
FieldsOf(bytes) ==
  IF ~hasPdfHeader(bytes) THEN {}
  ELSE bytes.fields \cup
       {bytes.ops[i].name : i \in {j \in 1..Len(bytes.ops) :
                                     bytes.ops[j].kind \in {TEXT_FIELD, CHECKBOX}}}

\* setPdfBytes(bytes) and the effect on [pdfBytes, renderPdf]: a new array
\* starts a render pass and refreshes the form-field list
setPdfBytes(bytes, isNewArray) ==
  /\ pdfBytes' = bytes
  /\ IF isNewArray \/ bytes # pdfBytes
     THEN /\ renderPdf(bytes, scale)
          /\ formFields' = FieldsOf(bytes)
     ELSE UNCHANGED <<renderTokenRef, renders, isRendering, formFields>>
  /\ UNCHANGED <<container, pageElementsRef, pageViewportsRef, thumbnails,
                 pageCount>>

\* a defect: a document is opened over the drafts of the one before
openDocument_keeping(bytes) ==
  /\ setPdfBytes(bytes, TRUE)
  /\ isSigned' = FALSE
  /\ UNCHANGED <<scale, lastScaleRef, drafts, selectedDraftId, draftSeq>>
  /\ UNCHANGED <<activeTool, signatureDataUrl, certificateData,
                 includeVisualSignature, signError, statusMessage, fieldNameDraft>>
  /\ UNCHANGED <<gestureVars, procVars, mainVars, handed>>

\* handleOpenDialog / handleFilePick once the file has been read, and
\* handleNewBlank once createBlankPdf has resolved
openDocument(bytes) ==
  /\ setPdfBytes(bytes, TRUE)
  /\ drafts' = <<>>
  /\ selectedDraftId' = 0
  /\ isSigned' = FALSE
  /\ UNCHANGED <<scale, lastScaleRef, draftSeq>>
  /\ UNCHANGED <<activeTool, signatureDataUrl, certificateData,
                 includeVisualSignature, signError, statusMessage, fieldNameDraft>>
  /\ UNCHANGED <<gestureVars, procVars, mainVars, handed>>

handleOpenDialog(bytes) ==
  /\ bytes.doc # 0
  /\ openDocument(bytes)

handleNewBlank == openDocument(BlankPdf)

\* handleLoadCertificate once openCertificate has returned a file
handleLoadCertificate ==
  /\ pdfApi.openCertificate
  /\ ~isSigned
  /\ ~certificateData
  /\ certificateData' = TRUE
  /\ signError' = ""
  /\ UNCHANGED <<activeTool, signatureDataUrl, includeVisualSignature,
                 statusMessage, formFields, fieldNameDraft>>
  /\ UNCHANGED <<renderVars, docVars, gestureVars, procVars, mainVars, handed>>

\* the "include visual signature" checkbox
setIncludeVisualSignature(checked) ==
  /\ ~isSigned
  /\ checked # includeVisualSignature
  /\ includeVisualSignature' = checked
  /\ UNCHANGED <<activeTool, signatureDataUrl, certificateData, signError,
                 statusMessage, formFields, fieldNameDraft>>
  /\ UNCHANGED <<renderVars, docVars, gestureVars, procVars, mainVars, handed>>

----------------------------------------------------------------------------
(* handleFieldCommit / handleCheckboxCommit *)

\* a defect: the value is set whether or not the name resolves
setFormFieldValue_unresolved(bytes, fieldName, value) ==
  [bytes EXCEPT !.ops = Append(@,
     [kind |-> "set", src |-> 0, pageIndex |-> 0, x |-> R(0), y |-> R(0),
      width |-> R(0), height |-> R(0), name |-> fieldName, value |-> value])]

\* setFormFieldValue: a field that does not resolve returns the input array
setFormFieldValue(bytes, fieldName, value) ==
  IF fieldName \notin FieldsOf(bytes) THEN bytes
  ELSE [bytes EXCEPT !.ops = Append(@,
          [kind |-> "set", src |-> 0, pageIndex |-> 0, x |-> R(0), y |-> R(0),
           width |-> R(0), height |-> R(0), name |-> fieldName,
           value |-> value])]

\* handleFieldCommit(field) / handleCheckboxCommit(field, checked) up to
\* `await setFormFieldValue(pdfBytes, ...)`; the inputs are disabled while
\* editingLocked
handleFieldCommit(fieldName, value) ==
  /\ ~isSigned
  /\ fieldName \in formFields
  /\ commits' = Append(commits,
       [pc |-> "setFormFieldValue", bytes |-> pdfBytes, name |-> fieldName,
        value |-> value])
  /\ UNCHANGED <<exports, renderVars, docVars, uiVars, gestureVars, mainVars,
                 handed>>

\* after the await: setPdfBytes(nextBytes)
handleFieldCommit_afterSet(c) ==
  /\ c \in 1..Len(commits)
  /\ commits[c].pc = "setFormFieldValue"
  /\ commits' = [commits EXCEPT ![c].pc = "done"]
  /\ IF ~hasPdfHeader(commits[c].bytes)
     THEN \* PDFDocument.load rejects
          UNCHANGED <<pdfBytes, renderVars, formFields>>
     ELSE LET nextBytes == setFormFieldValue(commits[c].bytes, commits[c].name,
                                             commits[c].value)
          IN  setPdfBytes(nextBytes, nextBytes # commits[c].bytes)
  /\ UNCHANGED <<scale, lastScaleRef, drafts, selectedDraftId, draftSeq, isSigned>>
  /\ UNCHANGED <<activeTool, signatureDataUrl, certificateData,
                 includeVisualSignature, signError, statusMessage, fieldNameDraft>>
  /\ UNCHANGED <<exports, gestureVars, mainVars, handed>>

----------------------------------------------------------------------------
(* handleExport *)

NoOp ==
  [kind |-> "", src |-> 0, pageIndex |-> 0, x |-> R(0), y |-> R(0),
   width |-> R(0), height |-> R(0), name |-> "", value |-> ""]

\* a defect: the export starts from a re-saved copy of the document
NewExport_resaved ==
  [pc |-> "start", pdfBytes |-> pdfBytes, drafts |-> drafts,
   certificateData |-> certificateData,
   includeVisualSignature |-> includeVisualSignature,
   nextBytes |-> [pdfBytes EXCEPT !.ops = Append(@, NoOp)], savePath |-> "",
   didSign |-> FALSE, idx |-> 0, op |-> NoOp, outcome |-> "", error |-> "",
   applied |-> <<>>]

\* one handleExport call: what its closure captured at the click (pdfBytes,
\* drafts, certificateData, includeVisualSignature), its locals (nextBytes,
\* savePath, didSign), where it is suspended (pc, idx, op), how it ended
\* (outcome, error: the Error caught and logged), and the drafts it applied
NewExport ==
  [pc |-> "start", pdfBytes |-> pdfBytes, drafts |-> drafts,
   certificateData |-> certificateData,
   includeVisualSignature |-> includeVisualSignature,
   nextBytes |-> pdfBytes, savePath |-> "", didSign |-> FALSE,
   idx |-> 0, op |-> NoOp, outcome |-> "", error |-> "", applied |-> <<>>]

Put(seq, e, rec) ==
  IF e = Len(seq) + 1 THEN Append(seq, rec) ELSE [seq EXCEPT ![e] = rec]

\* a defect: a draft whose rectangle did not resolve is composited all the same
needsStep_unresolved(x, draft) ==
  draft.type = SIGNATURE => (x.includeVisualSignature /\ draft.dataUrl)

\* a defect: the signature image is composited whatever the flag says
needsStep_flagless(x, draft) ==
  /\ resolveDraftRect(draft).ok
  /\ draft.type = SIGNATURE => draft.dataUrl

\* a draft of the loop that reaches an awaited primitive (the others `continue`)
needsStep(x, draft) ==
  /\ resolveDraftRect(draft).ok
  /\ draft.type = SIGNATURE => (x.includeVisualSignature /\ draft.dataUrl)

\* the first draft from position i on that reaches an awaited primitive
RECURSIVE NextIdx(_, _)
NextIdx(x, i) ==
  IF i > Len(x.drafts) THEN i
  ELSE IF needsStep(x, x.drafts[i]) THEN i
  ELSE NextIdx(x, i + 1)

Handed(to, bytes) == [to |-> to, hdr |-> hasPdfHeader(bytes)]

\* a defect: a failed export resets the draft list like a finished one
exportEnd_clearing(e, x, outcome, message, se) ==
  /\ exports' = Put(exports, e, [x EXCEPT !.pc = "done", !.outcome = outcome])
  /\ signError' = se
  /\ statusMessage' = IF message = "" THEN statusMessage
                      ELSE flashStatus(message, "error")
  /\ drafts' = <<>>
  /\ selectedDraftId' = 0
  /\ UNCHANGED <<pdfBytes, isSigned, renderVars, formFields, handed>>

\* the call returns without touching the document (an early return, or the
\* catch blocks); a message is flashed when there is one
exportEnd(e, x, outcome, message, se) ==
  /\ exports' = Put(exports, e, [x EXCEPT !.pc = "done", !.outcome = outcome])
  /\ signError' = se
  /\ statusMessage' = IF message = "" THEN statusMessage
                      ELSE flashStatus(message, "error")
  /\ UNCHANGED <<pdfBytes, drafts, selectedDraftId, isSigned, renderVars,
                 formFields, handed>>

\* the call suspends on an await, having passed nextBytes to `to`
exportAwait(e, x, to, se) ==
  /\ exports' = Put(exports, e, x)
  /\ signError' = se
  /\ handed' = IF to = "" THEN handed ELSE handed \cup {Handed(to, x.nextBytes)}
  /\ UNCHANGED <<pdfBytes, drafts, selectedDraftId, isSigned, renderVars,
                 formFields, statusMessage>>

\* lines 587-599: the final state update
exportFinish(e, x, se, sent) ==
  /\ exports' = Put(exports, e, [x EXCEPT !.pc = "done", !.outcome = "ok"])
  /\ signError' = se
  /\ statusMessage' = IF x.savePath # ""
                      THEN flashStatus(MsgExportComplete, "success")
                      ELSE statusMessage
  /\ setPdfBytes(x.nextBytes, x.nextBytes # x.pdfBytes)
  /\ drafts' = <<>>
  /\ selectedDraftId' = 0
  /\ isSigned' = IF x.didSign THEN TRUE ELSE isSigned
  /\ handed' = handed \cup sent \cup {Handed("memory", x.nextBytes)}

\* lines 563-578: hand the bytes to the save collaborator
exportWrite(e, x, se) ==
  IF pdfApi.writePdf /\ x.savePath # ""
  THEN exportAwait(e, [x EXCEPT !.pc = "writePdf"], "save", se)
  ELSE IF pdfApi.savePdf
  THEN exportAwait(e, [x EXCEPT !.pc = "savePdf"], "save", se)
  ELSE \* browser download: no await before the final state update
       exportFinish(e, x, se, {Handed("save", x.nextBytes)})

\* a defect: the signature field is put at the first signature draft
exportSign_first(e, x, se) ==
  LET signatureDrafts == SelectSeq(x.drafts, LAMBDA d : d.type = SIGNATURE)
      signatureDraft == signatureDrafts[1]
      rect == resolveDraftRect(signatureDraft)
  IN  IF Len(signatureDrafts) > 0 /\ x.certificateData
      THEN IF ~pdfApi.signPdf
           THEN exportEnd(e, x, "sign-unavailable", MsgSignUnavailable,
                          MsgSignUnavailable)
           ELSE IF ~rect.ok
           THEN exportEnd(e, x, "no-rect", "", se)
           ELSE exportAwait(e,
                  [x EXCEPT !.pc = "signPdf",
                            !.op = [kind |-> "sign", src |-> signatureDraft.id,
                                    pageIndex |-> rect.pageIndex,
                                    x |-> rect.x, y |-> rect.y,
                                    width |-> rect.width,
                                    height |-> rect.height,
                                    name |-> "", value |-> ""]],
                  "signer", se)
      ELSE exportWrite(e, x, se)

\* lines 513-541: after the loop, sign at the last signature draft
exportSign(e, x, se) ==
  LET signatureDrafts == SelectSeq(x.drafts, LAMBDA d : d.type = SIGNATURE)
      signatureDraft == signatureDrafts[Len(signatureDrafts)]
      rect == resolveDraftRect(signatureDraft)
  IN  IF Len(signatureDrafts) > 0 /\ x.certificateData
      THEN IF ~pdfApi.signPdf
           THEN exportEnd(e, x, "sign-unavailable", MsgSignUnavailable,
                          MsgSignUnavailable)
           ELSE IF ~rect.ok
           THEN exportEnd(e, x, "no-rect", "", se)
           ELSE exportAwait(e,
                  [x EXCEPT !.pc = "signPdf",
                            !.op = [kind |-> "sign", src |-> signatureDraft.id,
                                    pageIndex |-> rect.pageIndex,
                                    x |-> rect.x, y |-> rect.y,
                                    width |-> rect.width,
                                    height |-> rect.height,
                                    name |-> "", value |-> ""]],
                  "signer", se)
      ELSE exportWrite(e, x, se)

\* lines 457-511: run the draft loop from position i up to the next await
exportLoop(e, x, i, se) ==
  LET j == NextIdx(x, i)
  IN  IF j <= Len(x.drafts)
      THEN exportAwait(e,
             [x EXCEPT !.pc = "draft", !.idx = j,
                       !.op = draftOp(x.drafts[j], resolveDraftRect(x.drafts[j]))],
             "step", se)
      ELSE exportSign(e, x, se)

exportFrame ==
  UNCHANGED <<scale, lastScaleRef, draftSeq, activeTool, signatureDataUrl,
              certificateData, includeVisualSignature, fieldNameDraft,
              gestureVars, commits, pdfApi, isDev, calls>>

\* the Export PDF button: handleExport up to its first await
handleExport ==
  /\ pdfBytes.doc # 0
  /\ LET e == Len(exports) + 1
         x == NewExport
     IN  IF ~hasPdfHeader(x.nextBytes)
         THEN exportEnd(e, x, "invalid-input", MsgInvalidInput, MsgInvalidInput)
         ELSE IF pdfApi.savePdfPath
         THEN exportAwait(e, [x EXCEPT !.pc = "savePdfPath"], "", "")
         ELSE exportLoop(e, x, 1, "")
  /\ exportFrame
  /\ UNCHANGED <<allowedWritePaths, disk>>

\* a defect: a dismissed dialog is taken for "no save path yet" and the
\* export goes on
handleExport_afterSavePdfPath_proceeding(e, result) ==
  /\ e \in 1..Len(exports)
  /\ exports[e].pc = "savePdfPath"
  /\ LET x == exports[e]
     IN  IF result = "throw"
         THEN /\ exportEnd(e, x, "dialog-failed", MsgDialogFailed, signError)
              /\ UNCHANGED allowedWritePaths
         ELSE IF result = "cancel"
         THEN /\ exportLoop(e, x, 1, signError)
              /\ UNCHANGED allowedWritePaths
         ELSE /\ allowedWritePaths' = allowedWritePaths \cup {result}
              /\ exportLoop(e, [x EXCEPT !.savePath = result], 1, signError)
  /\ exportFrame
  /\ UNCHANGED disk

\* dialog:savePdfPath has answered: a path (remembered by the main process),
\* null when the dialog was dismissed, or a rejected call
handleExport_afterSavePdfPath(e, result) ==
  /\ e \in 1..Len(exports)
  /\ exports[e].pc = "savePdfPath"
  /\ LET x == exports[e]
     IN  IF result = "throw"
         THEN /\ exportEnd(e, x, "dialog-failed", MsgDialogFailed, signError)
              /\ UNCHANGED allowedWritePaths
         ELSE IF result = "cancel"
         THEN /\ exportEnd(e, x, "cancelled", "", signError)
              /\ UNCHANGED allowedWritePaths
         ELSE /\ allowedWritePaths' = allowedWritePaths \cup {result}
              /\ exportLoop(e, [x EXCEPT !.savePath = result], 1, signError)
  /\ exportFrame
  /\ UNCHANGED disk

\* a defect: every primitive is given the bytes the export started from
stepInput_original(x) == x.pdfBytes

\* the bytes the draft loop passes to a primitive: nextBytes, the output of
\* the step before
stepInput(x) == x.nextBytes

\* the primitive awaited for draft idx has settled: it threw, or it returned
\* bytes that ensurePdf checks before the loop goes on
handleExport_afterDraft(e, outcome) ==
  /\ e \in 1..Len(exports)
  /\ exports[e].pc = "draft"
  /\ LET x == exports[e]
         returned == IF outcome = "garbage" THEN Garbage(stepInput(x))
                     ELSE applyOp(stepInput(x), x.op)
         thrown == IF outcome = "throw" THEN "primitive failed"
                   ELSE ensurePdf(returned, stepContext(x.drafts[x.idx].type))
     IN  IF thrown # ""
         THEN exportEnd(e, [x EXCEPT !.error = thrown], "step-failed",
                        MsgExportFailed, MsgExportFailed)
         ELSE exportLoop(e, [x EXCEPT !.nextBytes = returned,
                                      !.applied = Append(@, x.idx)],
                         x.idx + 1, signError)
  /\ exportFrame
  /\ UNCHANGED <<allowedWritePaths, disk>>

\* pdf:signWithP12 has settled: { data }, { error }, a result with neither
\* (outcome "none": the bytes stay unsigned and the export goes on), or a
\* rejected call, which the catch of lines 555-561 handles
handleExport_afterSignPdf(e, outcome) ==
  /\ e \in 1..Len(exports)
  /\ exports[e].pc = "signPdf"
  /\ LET x == exports[e]
         signed == [applyOp(x.nextBytes, x.op) EXCEPT !.sig = TRUE]
         returned == IF outcome = "garbage" THEN Garbage(signed) ELSE signed
         thrown == IF outcome = "throw" THEN "signPdf rejected"
                   ELSE ensurePdf(returned, stepContext("sign"))
     IN  IF outcome = "error"
         THEN exportEnd(e, x, "sign-error", MsgSignFailed, MsgSignFailed)
         ELSE IF outcome = "none"
         THEN exportWrite(e, x, signError)
         ELSE IF thrown # ""
         THEN exportEnd(e, [x EXCEPT !.error = thrown], "step-failed",
                        MsgExportFailed, MsgExportFailed)
         ELSE exportWrite(e, [x EXCEPT !.nextBytes = returned, !.didSign = TRUE],
                          signError)
  /\ exportFrame
  /\ UNCHANGED <<allowedWritePaths, disk>>

\* file:writePdf in the main process: only approved paths are written
writePdf(path, bytes) ==
  IF path \notin allowedWritePaths
  THEN UNCHANGED disk
  ELSE disk' = Append(disk, [path |-> path, hdr |-> hasPdfHeader(bytes)])

\* file:writePdf or dialog:savePdf has settled.  A rejected call is caught;
\* any resolved value, also null or { error }, lets the export finish
handleExport_afterWrite(e, outcome, path) ==
  /\ e \in 1..Len(exports)
  /\ exports[e].pc \in {"writePdf", "savePdf"}
  /\ outcome = "cancel" => exports[e].pc = "savePdf"
  /\ LET x == exports[e]
     IN  IF outcome = "throw"
         THEN /\ exportEnd(e, x, "write-failed", MsgWriteFailed, MsgWriteFailed)
              /\ UNCHANGED <<allowedWritePaths, disk>>
         ELSE /\ exportFinish(e, x, signError, {})
              /\ IF x.pc = "writePdf"
                 THEN /\ writePdf(x.savePath, x.nextBytes)
                      /\ UNCHANGED allowedWritePaths
                 ELSE IF outcome = "cancel"
                 THEN UNCHANGED <<allowedWritePaths, disk>>
                 ELSE /\ disk' = Append(disk, [path |-> path,
                                               hdr |-> hasPdfHeader(x.nextBytes)])
                      /\ allowedWritePaths' = allowedWritePaths \cup {path}
  /\ exportFrame

----------------------------------------------------------------------------
(* Initial states *)

\* files the user can open: a one-page Letter form with two fields, a
\* two-page Letter file, a business card (252 x 144), and a file that is no PDF
FormPdf ==
  [doc |-> 2, hdr |-> TRUE, pages |-> 1, pageW |-> LetterW, pageH |-> LetterH,
   fields |-> {"A", "B"}, ops |-> <<>>, sig |-> FALSE]
TwoPagePdf ==
  [doc |-> 3, hdr |-> TRUE, pages |-> 2, pageW |-> LetterW, pageH |-> LetterH,
   fields |-> {}, ops |-> <<>>, sig |-> FALSE]
CardW == 252
CardH == 144
CardPdf ==
  [doc |-> 4, hdr |-> TRUE, pages |-> 1, pageW |-> CardW, pageH |-> CardH,
   fields |-> {}, ops |-> <<>>, sig |-> FALSE]
NotAPdf ==
  [doc |-> 5, hdr |-> FALSE, pages |-> 0, pageW |-> 0, pageH |-> 0,
   fields |-> {}, ops |-> <<>>, sig |-> FALSE]

\* the App component as mounted: the useState / useRef initial values
MountedApp(bridge) ==
  /\ renderTokenRef = 0 /\ renders = <<>> /\ container = <<>>
  /\ pageElementsRef = <<>> /\ pageViewportsRef = <<>> /\ thumbnails = <<>>
  /\ isRendering = FALSE /\ pageCount = 0
  /\ pdfBytes = NoBytes /\ scale = InitialScale /\ lastScaleRef = InitialScale
  /\ drafts = <<>> /\ selectedDraftId = 0 /\ draftSeq = 0 /\ isSigned = FALSE
  /\ activeTool = PAN /\ signatureDataUrl = FALSE /\ certificateData = FALSE
  /\ includeVisualSignature = TRUE /\ signError = ""
  /\ statusMessage = NoMessage /\ formFields = {} /\ fieldNameDraft = ""
  /\ textFieldDragRef = NoDrag /\ textFieldDraft = NoBox
  /\ textDragRef = NoDrag /\ textDraftBox = NoBox /\ dragStateRef = NoDragState
  /\ exports = <<>> /\ commits = <<>>
  /\ pdfApi = bridge
  /\ handed = {}

\* the main process as started: nothing approved, written or received
Started(dev) ==
  /\ allowedWritePaths = {} /\ disk = <<>>
  /\ isDev = dev /\ calls = <<>>

\* the packaged application, just started
Mounted(bridge) == MountedApp(bridge) /\ Started(FALSE)

\* the render pass of a one-page file, run to its end
DonePass(bytes, sc, token) ==
  [NewPass(bytes, sc, token) EXCEPT
     !.pc = "done",
     !.viewports = <<Viewport(bytes, sc, token)>>,
     !.results = <<[by |-> token, pageIndex |-> 0]>>]

\* the App after a one-page file was opened and its first render pass and
\* thumbnails completed, with nothing else done
Opened(bridge, bytes) ==
  /\ renderTokenRef = 1
  /\ renders = <<DonePass(bytes, InitialScale, 1)>>
  /\ container = <<PageElement(NewPass(bytes, InitialScale, 1))>>
  /\ pageElementsRef = container
  /\ pageViewportsRef = <<Viewport(bytes, InitialScale, 1)>>
  /\ thumbnails = <<[by |-> 1, pageIndex |-> 0]>>
  /\ isRendering = FALSE /\ pageCount = 1
  /\ pdfBytes = bytes /\ scale = InitialScale /\ lastScaleRef = InitialScale
  /\ drafts = <<>> /\ selectedDraftId = 0 /\ draftSeq = 0 /\ isSigned = FALSE
  /\ activeTool = PAN /\ signatureDataUrl = FALSE /\ certificateData = FALSE
  /\ includeVisualSignature = TRUE /\ signError = ""
  /\ statusMessage = NoMessage /\ formFields = FieldsOf(bytes)
  /\ fieldNameDraft = ""
  /\ textFieldDragRef = NoDrag /\ textFieldDraft = NoBox
  /\ textDragRef = NoDrag /\ textDraftBox = NoBox /\ dragStateRef = NoDragState
  /\ exports = <<>> /\ commits = <<>>
  /\ pdfApi = bridge /\ allowedWritePaths = {} /\ disk = <<>>
  /\ isDev = FALSE /\ calls = <<>>
  /\ handed = {}

\* the App after a file that is no PDF was opened: getDocument rejected, so
\* nothing was rendered and isRendering was never reset
OpenedBroken(bridge) ==
  /\ renderTokenRef = 1
  /\ renders = <<[NewPass(NotAPdf, InitialScale, 1) EXCEPT !.pc = "failed"]>>
  /\ container = <<>> /\ pageElementsRef = <<>> /\ pageViewportsRef = <<>>
  /\ thumbnails = <<>> /\ isRendering = TRUE /\ pageCount = 0
  /\ pdfBytes = NotAPdf /\ scale = InitialScale /\ lastScaleRef = InitialScale
  /\ drafts = <<>> /\ selectedDraftId = 0 /\ draftSeq = 0 /\ isSigned = FALSE
  /\ activeTool = PAN /\ signatureDataUrl = FALSE /\ certificateData = FALSE
  /\ includeVisualSignature = TRUE /\ signError = ""
  /\ statusMessage = NoMessage /\ formFields = {} /\ fieldNameDraft = ""
  /\ textFieldDragRef = NoDrag /\ textFieldDraft = NoBox
  /\ textDragRef = NoDrag /\ textDraftBox = NoBox /\ dragStateRef = NoDragState
  /\ exports = <<>> /\ commits = <<>>
  /\ pdfApi = bridge /\ allowedWritePaths = {} /\ disk = <<>>
  /\ isDev = FALSE /\ calls = <<>>
  /\ handed = {}

----------------------------------------------------------------------------
(* Rendering: a freshly mounted App, files opened and the zoom changed while  *)
(* render passes are in flight                                               *)

RenderScales == {12, InitialScale}

InitRender == Mounted(DesktopBridge)

RenderStep ==
  \/ \E t \in 1..Len(renders) : renderPdf_afterLoad(t)
  \/ \E t \in 1..Len(renders) : renderPdf_afterGetPage(t)
  \/ \E t \in 1..Len(renders) : renderPdf_afterRender(t)
  \/ \E t \in 1..Len(renders) : renderThumbnails_afterGetPage(t)
  \/ \E t \in 1..Len(renders) : renderThumbnails_afterRender(t)

NextRender ==
  \/ renderTokenRef < MaxRenders /\ handleNewBlank
  \/ renderTokenRef < MaxRenders /\ handleOpenDialog(TwoPagePdf)
  \/ renderTokenRef < MaxRenders /\ \E sc \in RenderScales : setScale(sc)
  \/ RenderStep

SpecRender == InitRender /\ [][NextRender]_vars

----------------------------------------------------------------------------
(* Inputs of the awaited collaborators and of the pointer                    *)

Bridges == {DesktopBridge, NoBridge, OutOfDateBridge}
StepOutcomes == {"ok", "throw", "garbage"}
SignOutcomes == {"ok", "error", "garbage", "none", "throw"}
WriteOutcomes == {"ok", "throw", "cancel"}
SavePaths == {"out.pdf"}
DialogResults == {"throw", "cancel"} \cup SavePaths
\* where the pointer goes down, and how far a drag-to-create gesture moves it
PointX == 100
PointY == 100
DragX == 60
DragY == 30

NoGesture ==
  ~textFieldDragRef.active /\ ~textDragRef.active /\ ~dragStateRef.active

\* the steps of the handleExport calls in flight
ExportStep ==
  \/ \E e \in 1..Len(exports), result \in DialogResults :
       handleExport_afterSavePdfPath(e, result)
  \/ \E e \in 1..Len(exports), outcome \in StepOutcomes :
       handleExport_afterDraft(e, outcome)
  \/ \E e \in 1..Len(exports), outcome \in SignOutcomes :
       handleExport_afterSignPdf(e, outcome)
  \/ \E e \in 1..Len(exports), outcome \in WriteOutcomes, path \in SavePaths :
       handleExport_afterWrite(e, outcome, path)

----------------------------------------------------------------------------
(* Export: a form opened and rendered; drafts of every kind are placed and   *)
(* an export runs, with every outcome of the awaited collaborators           *)

Init == \E bridge \in Bridges : Opened(bridge, FormPdf) \/ OpenedBroken(bridge)

Place ==
  \/ draftSeq < MaxDrafts /\ handleCanvasClick(1, R(PointX), R(PointY))
  \/ draftSeq < MaxDrafts /\ NoGesture
       /\ handleViewerPointerDown(1, R(PointX), R(PointY))
  \/ handleTextFieldPointerMove(R(PointX + DragX), R(PointY + DragY))
  \/ handleTextFieldPointerUp
  \/ handleTextPointerUp

Edit ==
  \/ \E tool \in {TEXT, TEXT_FIELD, CHECKBOX, SIGNATURE} : setActiveTool(tool)
  \/ setSignatureDataUrl
  \/ handleLoadCertificate
  \/ \E checked \in BOOLEAN : setIncludeVisualSignature(checked)

Commit ==
  \/ Len(commits) < MaxCommits /\ handleFieldCommit("A", "v")
  \/ \E c \in 1..Len(commits) : handleFieldCommit_afterSet(c)

Export ==
  \/ Len(exports) < MaxExports /\ handleExport
  \/ ExportStep

Next ==
  \/ Place
  \/ Edit
  \/ Commit
  \/ Export

Spec == Init /\ [][Next]_vars

----------------------------------------------------------------------------
(* Overlap: in the desktop app, exports and form-field commits are started   *)
(* while others are still in flight                                          *)

InitOverlap == Opened(DesktopBridge, FormPdf)

NextOverlap ==
  \/ setActiveTool(CHECKBOX)
  \/ draftSeq < MaxDrafts /\ handleCanvasClick(1, R(PointX), R(PointY))
  \/ Len(commits) < MaxInFlight
       /\ \E name \in {"A", "B"} : handleFieldCommit(name, "v")
  \/ \E c \in 1..Len(commits) : handleFieldCommit_afterSet(c)
  \/ Len(exports) < MaxInFlight /\ handleExport
  \/ \E e \in 1..Len(exports), result \in SavePaths \cup {"cancel"} :
       handleExport_afterSavePdfPath(e, result)
  \/ \E e \in 1..Len(exports) : handleExport_afterDraft(e, "ok")
  \/ \E e \in 1..Len(exports), path \in SavePaths :
       handleExport_afterWrite(e, "ok", path)
  \/ statusTimer

SpecOverlap == InitOverlap /\ [][NextOverlap]_vars

----------------------------------------------------------------------------
(* Geometry: a business card opened and rendered; drafts are placed and      *)
(* removed and the zoom is changed, with the page rendered again             *)

\* zoom slider positions: 0.6, 1.05, 2
GeomScales == {12, InitialScale, 40}
\* pointer positions on and beyond the page
GeomPoints == {<<R(DragY), R(DragY)>>, <<R(500), R(500)>>}

InitGeom == Opened(DesktopBridge, CardPdf)

NextGeom ==
  \/ \E tool \in {TEXT, CHECKBOX, SIGNATURE} : setActiveTool(tool)
  \/ setSignatureDataUrl
  \/ renderTokenRef < MaxZooms + 1 /\ ~PassInFlight(renderTokenRef)
       /\ \E sc \in GeomScales : setScale(sc)
  \/ \E t \in 1..Len(renders) : renderPdf_afterLoad(t)
  \/ \E t \in 1..Len(renders) : renderPdf_afterGetPage(t)
  \/ \E t \in 1..Len(renders) : renderPdf_afterRender(t)
  \/ draftSeq < MaxDrafts
       /\ \E p \in GeomPoints : handleCanvasClick(1, p[1], p[2])
  \/ draftSeq < MaxDrafts /\ NoGesture
       /\ \E p \in GeomPoints : handleViewerPointerDown(1, p[1], p[2])
  \/ \E p \in GeomPoints : handleTextPointerMove(p[1], p[2])
  \/ handleTextPointerUp
  \/ \E i \in 1..Len(drafts) : removeDraft(drafts[i].id)

SpecGeom == InitGeom /\ [][NextGeom]_vars

----------------------------------------------------------------------------
(* C1 *)

\* C1: a superseded render pass never overwrites the current page set: once
\* no renderPdf call is in flight, every page element of the viewer container,
\* every entry of pageElementsRef and every viewport of pageViewportsRef was
\* produced by the latest render request (the one holding renderTokenRef)
C1_LatestRenderOnly ==
  (renderTokenRef > 0 /\ \A t \in 1..Len(renders) : ~PassInFlight(t)) =>
    /\ \A k \in 1..Len(container) : container[k].by = renderTokenRef
    /\ \A k \in 1..Len(pageElementsRef) : pageElementsRef[k].by = renderTokenRef
    /\ \A k \in 1..Len(pageViewportsRef) : pageViewportsRef[k].by = renderTokenRef

----------------------------------------------------------------------------
(* C2, C9 *)

\* a handleExport call, or a commit, that has started and not yet returned
ExportInFlight(e) == exports[e].pc # "done"
CommitInFlight(c) == commits[c].pc # "done"

\* C2: export is not re-entrant: at most one handleExport call is in flight
\* (between its start and its final state update or early return) at any time
C2_OneExportInFlight ==
  Cardinality({e \in 1..Len(exports) : ExportInFlight(e)}) <= 1

\* C9: the operations that mutate or sign the document (handleExport with its
\* compositing and signing, and the setFormFieldValue commits) never overlap:
\* at most one of them is in flight at any time
C9_OneOperationInFlight ==
  Cardinality({e \in 1..Len(exports) : ExportInFlight(e)})
    + Cardinality({c \in 1..Len(commits) : CommitInFlight(c)}) <= 1

----------------------------------------------------------------------------
(* C4 *)

\* the mutations an export has composited so far: what nextBytes holds beyond
\* the bytes the export started from, without the signing step
Composited(x) ==
  SubSeq(x.nextBytes.ops, Len(x.pdfBytes.ops) + 1,
         Len(x.nextBytes.ops) - (IF x.didSign THEN 1 ELSE 0))

\* C4: an export composites its drafts in store order, each on the output of
\* the step before: at every point of every export, nextBytes is the document
\* the export started from followed by exactly one mutation per draft applied
\* so far, in the order of the draft list, and a finished export has left out
\* no draft that reaches a primitive
C4_StoreOrder ==
  \A e \in 1..Len(exports) :
    LET x == exports[e]
        ops == Composited(x)
    IN  /\ x.nextBytes.doc = x.pdfBytes.doc
        /\ SubSeq(x.nextBytes.ops, 1, Len(x.pdfBytes.ops)) = x.pdfBytes.ops
        /\ Len(ops) = Len(x.applied)
        /\ \A k \in 1..Len(x.applied) :
             /\ x.applied[k] \in 1..Len(x.drafts)
             /\ ops[k].src = x.drafts[x.applied[k]].id
             /\ ops[k].kind = x.drafts[x.applied[k]].type
        /\ \A j, k \in 1..Len(x.applied) : j < k => x.applied[j] < x.applied[k]
        /\ x.outcome = "ok" =>
             \A i \in 1..Len(x.drafts) :
               needsStep(x, x.drafts[i]) => \E k \in 1..Len(x.applied) : x.applied[k] = i

\* an export of two drafts, started from a document that already carries a
\* committed field value, has finished
C4_Witness ==
  \E e \in 1..Len(exports) :
    /\ exports[e].outcome = "ok"
    /\ Len(exports[e].applied) = 2
    /\ Len(exports[e].pdfBytes.ops) > 0

----------------------------------------------------------------------------
(* C5, C6, C7 *)

\* the ways an export fails for the user
ExportFailures ==
  {"invalid-input", "dialog-failed", "step-failed", "sign-unavailable",
   "sign-error", "write-failed"}

\* this step is a step of export e (its start included)
StepOf(e) == e > Len(exports) \/ exports'[e] # exports[e]

\* C5: no step of an export that has not finished successfully changes the
\* in-memory bytes or the draft list, and the step in which it fails (invalid
\* input, save dialog failure, a composite step throwing or returning invalid
\* bytes, signing unavailable, signer error, write failure) shows an error
\* status message
C5_FailureLeavesDocument ==
  [][\A e \in 1..Len(exports') :
       StepOf(e) =>
         /\ exports'[e].outcome # "ok" => (pdfBytes' = pdfBytes /\ drafts' = drafts)
         /\ exports'[e].outcome \in ExportFailures =>
              /\ statusMessage'.message # ""
              /\ statusMessage'.tone = "error"]_vars

\* an export failed after it had composited a draft; the drafts are still in
\* the store and the document is the one the export started from
C5_Witness ==
  \E e \in 1..Len(exports) :
    /\ exports[e].outcome = "step-failed"
    /\ Len(exports[e].applied) > 0
    /\ drafts = exports[e].drafts
    /\ pdfBytes = exports[e].pdfBytes
    /\ statusMessage = flashStatus(MsgExportFailed, "error")

\* C6: bytes that fail the header check are never handed downstream by an
\* export: whatever it passed to a primitive, to the signer or to the save
\* collaborator, stored as the in-memory document or wrote to disk had the
\* %PDF header, and the bytes carried by an export always pass the check
C6_NoInvalidBytesDownstream ==
  /\ \A h \in handed : h.hdr
  /\ \A k \in 1..Len(disk) : disk[k].hdr
  /\ \A e \in 1..Len(exports) :
       exports[e].outcome # "invalid-input" => hasPdfHeader(exports[e].nextBytes)

\* a primitive returned bytes without the header after an earlier step had
\* succeeded, and the export was aborted
C6_Witness ==
  \E e \in 1..Len(exports) :
    /\ exports[e].outcome = "step-failed"
    /\ exports[e].error = ensurePdf(Garbage(exports[e].nextBytes), "adding checkbox")
    /\ Len(exports[e].applied) > 0
    /\ \E h \in handed : h.to = "step"

\* the errors ensurePdf throws, one per kind of step
StepErrors ==
  {ensurePdf(NoBytes, stepContext(t)) : t \in {TEXT, TEXT_FIELD, CHECKBOX, SIGNATURE, "sign"}}

\* C7: when a step yields bytes failing the header check, the error the export
\* surfaces (the status message and signError) is the one that identifies the
\* failed step
C7_ErrorNamesStep ==
  [][\A e \in 1..Len(exports') :
       (StepOf(e) /\ exports'[e].error \in StepErrors) =>
         /\ statusMessage'.message = exports'[e].error
         /\ signError' = exports'[e].error]_vars

----------------------------------------------------------------------------
(* C8 *)

\* C8: editing is locked after signing: while isSigned stays set, no step
\* changes the draft list or the in-memory bytes, gestures and commits that
\* were in flight when signing completed included
C8_LockedAfterSigning ==
  [][(isSigned /\ isSigned') => (drafts' = drafts /\ pdfBytes' = pdfBytes)]_vars

----------------------------------------------------------------------------
(* C3, C10 *)

\* C3: every draft lies fully inside its page's current viewport (the one
\* rendered at the current scale): 0 <= x, 0 <= y, x + width <= viewport.width
\* and y + height <= viewport.height
C3_DraftsInsideViewport ==
  \A i \in 1..Len(drafts) :
    LET d == drafts[i]
        viewport == ViewportAt(d.pageIndex)
    IN  (HasViewport(d.pageIndex) /\ viewport.scale = scale) =>
          /\ RLe(R(0), d.x) /\ RLe(R(0), d.y)
          /\ RLe(RAdd(d.x, d.width), viewport.width)
          /\ RLe(RAdd(d.y, d.height), viewport.height)

\* C10: a change of the render scale multiplies x, y, width and height of
\* every draft by s_new / s_old, so that the PDF-space rectangle of each draft,
\* resolved through the viewport of the new scale, is the one it had through
\* the viewport of the old scale
C10_RescaleKeepsPdfRect ==
  [][scale' # scale =>
       /\ Len(drafts') = Len(drafts)
       /\ \A i \in 1..Len(drafts) :
            /\ drafts'[i].x = RMul(drafts[i].x, Norm(scale', scale))
            /\ drafts'[i].y = RMul(drafts[i].y, Norm(scale', scale))
            /\ drafts'[i].width = RMul(drafts[i].width, Norm(scale', scale))
            /\ drafts'[i].height = RMul(drafts[i].height, Norm(scale', scale))
            /\ rectThrough(Viewport(pdfBytes, scale', 0), drafts'[i])
                 = rectThrough(Viewport(pdfBytes, scale, 0), drafts[i])]_vars

\* two drafts in the store at zoom 2, one of them a checkbox placed at the
\* initial zoom and rescaled since
C10_Witness ==
  /\ scale = 40
  /\ Len(drafts) = 2
  /\ \E i \in 1..Len(drafts) :
       /\ drafts[i].type = CHECKBOX
       /\ drafts[i].width = RMul(R(DefaultCheckboxSize), Norm(40, InitialScale))

----------------------------------------------------------------------------
(* The draft store: create, select, move, resize, rename, edit, remove *)

\* drafts created in one behaviour of the draft-store specification
MaxStored == 3

\* a pointer travel that carries a dragged draft to the page's far edge
FarDrag == 500

\* the gestures on a draft: a move, and a resize by the south-east handle
DragHandles == {<<>>, <<"s", "e">>}

InitDrafts == Opened(DesktopBridge, CardPdf)

NextDrafts ==
  \/ \E tool \in {TEXT, CHECKBOX} : setActiveTool(tool)
  \/ draftSeq < MaxStored /\ handleCanvasClick(1, R(PointX), R(PointY))
  \/ draftSeq < MaxStored /\ handleViewerPointerDown(1, R(PointX), R(PointY))
  \/ handleTextPointerUp
  \/ \E i \in 1..Len(drafts), handle \in DragHandles :
       /\ ~dragStateRef.active /\ drafts[i].type = CHECKBOX
       /\ handleDraftPointerDown(i, handle)
  \/ handleDraftPointerMove(R(FarDrag), R(FarDrag))
  \/ handleDraftPointerUp
  \/ \E i \in 1..Len(drafts) : focusDraft(drafts[i].id)
  \/ \E i \in 1..Len(drafts) : renameDraft(drafts[i].id, "n")
  \/ \E i \in 1..Len(drafts) : resizeText(drafts[i].id, MinFontSize)
  \/ \E i \in 1..Len(drafts) : removeDraft(drafts[i].id)

SpecDrafts == InitDrafts /\ [][NextDrafts]_vars

\* the ids of a draft list, in list order
DraftIds(ds) == [i \in 1..Len(ds) |-> ds[i].id]

\* C11: the draft list keeps insertion order.  A step that keeps the number
\* of drafts (select, move, resize, rename, content or style edit) keeps
\* every draft at its position; a step that adds a draft appends it after
\* the unchanged existing drafts; a step that removes a draft removes exactly
\* that one and leaves the others in their relative order.
C11_InsertionOrderKept ==
  [][LET ids == DraftIds(drafts)
         next == DraftIds(drafts')
     IN  /\ Len(next) = Len(ids) => next = ids
         /\ Len(next) > Len(ids) =>
               /\ Len(next) = Len(ids) + 1
               /\ SubSeq(drafts', 1, Len(ids)) = drafts
               /\ \A i \in 1..Len(ids) : ids[i] # next[Len(next)]
         /\ Len(next) < Len(ids) =>
               \E k \in 1..Len(ids) :
                 next = SubSeq(ids, 1, k - 1) \o SubSeq(ids, k + 1, Len(ids))
    ]_vars

\* the middle draft of three was removed and both remaining drafts were
\* changed in place: the first resized by its handle, the last renamed
C11_Witness ==
  /\ DraftIds(drafts) = <<1, 3>>
  /\ drafts[1].type = CHECKBOX /\ drafts[1].width # R(DefaultCheckboxSize)
  /\ drafts[2].fieldName = "n"
  /\ ~dragStateRef.active

----------------------------------------------------------------------------
(* Export: the hand-over to the signer *)

SignatureDraftsOf(x) == SelectSeq(x.drafts, LAMBDA d : d.type = SIGNATURE)

\* the export has called window.pdfApi.signPdf
SignerInvoked(x) == x.op.kind = "sign"

\* C12: an export calls the signer at most once, and only with a signature
\* draft in its draft list and a certificate loaded; the call comes after
\* the draft loop has applied every draft that reaches a primitive, and it
\* carries the page index and the resolved PDF rectangle of the last
\* signature draft of the list.  An export that runs to its end with a
\* signature draft and a certificate has called the signer.
C12_SignerAfterDrafts ==
  [][\A e \in 1..Len(exports') :
       LET x == exports'[e]
           sigs == SignatureDraftsOf(x)
           last == sigs[Len(sigs)]
           rect == rectThrough(ViewportAt(last.pageIndex), last)
       IN  /\ SignerInvoked(x) => (Len(sigs) > 0 /\ x.certificateData)
           /\ (x.outcome = "ok" /\ Len(sigs) > 0 /\ x.certificateData) =>
                 SignerInvoked(x)
           /\ (StepOf(e) /\ x.pc = "signPdf") =>
                 /\ e > Len(exports) \/ ~SignerInvoked(exports[e])
                 /\ \A j \in 1..Len(x.drafts) :
                      needsStep(x, x.drafts[j]) =>
                        \E k \in 1..Len(x.applied) : x.applied[k] = j
                 /\ x.op.src = last.id
                 /\ x.op.pageIndex = last.pageIndex
                 /\ x.op.x = rect.x /\ x.op.y = rect.y
                 /\ x.op.width = rect.width /\ x.op.height = rect.height
    ]_vars

\* an export of two visual signature drafts was signed at the second one
C12_Witness ==
  \E e \in 1..Len(exports) :
    /\ exports[e].outcome = "ok" /\ exports[e].didSign
    /\ Len(SignatureDraftsOf(exports[e])) = 2
    /\ Len(exports[e].applied) = 2
    /\ exports[e].op.src = exports[e].drafts[2].id

----------------------------------------------------------------------------
(* The main process (electron/main.cjs): what a request carries *)

\* MAX_PDF_BYTES and MAX_CERT_BYTES, in bytes
MAX_PDF_BYTES == 50 * 1024 * 1024
MAX_CERT_BYTES == 5 * 1024 * 1024

\* A URL is kept as its scheme and its origin; NoUrl is a missing or empty one
NoUrl == [scheme |-> "", origin |-> ""]
AppUrl == [scheme |-> "file", origin |-> "null"]
devServerUrl == [scheme |-> "http", origin |-> "http://localhost:5173"]
ForeignUrl == [scheme |-> "https", origin |-> "https://example.org"]

\* devServerOrigin: null outside development
devServerOrigin == IF ~isDev THEN "" ELSE devServerUrl.origin

isTrustedUrl(url) ==
  IF url = NoUrl THEN FALSE
  ELSE IF url.scheme = "file" THEN TRUE
  ELSE IF ~isDev \/ devServerOrigin = "" THEN FALSE
  ELSE url.origin = devServerOrigin

\* event.senderFrame.url, or the URL of the sending page when that is empty
isTrustedSender(event) ==
  isTrustedUrl(IF event.senderFrame # NoUrl THEN event.senderFrame
               ELSE event.sender)

\* A path names a file; two spellings of a path that path.resolve (and, on
\* win32, lower-casing) map to the same string name the same file
NoPath == [file |-> "", spelling |-> 0]
normalizePath(filePath) == filePath.file

\* A base64 string: its length, the number of '=' that pad it, and whether
\* the bytes it encodes start with %PDF.  NoData is a missing or empty one
NoData == [length |-> 0, padding |-> 0, hdr |-> FALSE]
estimatedBytes(data) == (data.length * 3) \div 4
\* Buffer.from(data, 'base64').length
decodedLength(data) == (data.length \div 4) * 3 - data.padding

\* a defect: the payload is decoded whatever its size
decodeBase64Payload_unbounded(data, maxBytes, label) ==
  IF data = NoData
  THEN [ok |-> FALSE, error |-> label \o " data is missing.", length |-> 0,
        hdr |-> FALSE]
  ELSE [ok |-> TRUE, error |-> "", length |-> decodedLength(data),
        hdr |-> data.hdr]

\* decodeBase64Payload: the buffer, or the Error it throws
decodeBase64Payload(data, maxBytes, label) ==
  IF data = NoData
  THEN [ok |-> FALSE, error |-> label \o " data is missing.", length |-> 0,
        hdr |-> FALSE]
  ELSE IF estimatedBytes(data) > maxBytes
  THEN [ok |-> FALSE, error |-> label \o " is too large.", length |-> 0,
        hdr |-> FALSE]
  ELSE IF decodedLength(data) > maxBytes
  THEN [ok |-> FALSE, error |-> label \o " is too large.", length |-> 0,
        hdr |-> FALSE]
  ELSE [ok |-> TRUE, error |-> "", length |-> decodedLength(data),
        hdr |-> data.hdr]

----------------------------------------------------------------------------
(* The main process: the IPC handlers, one action per segment *)

\* a call: the channel and event of the request, its payload, where the
\* handler is suspended, what it has done so far (effects, and for a signing
\* call the document it works on), and what it returned
NoReply == [kind |-> "", error |-> "", path |-> NoPath, signed |-> FALSE]
NoWork ==
  [page |-> 0, widgetRect |-> <<0, 0, 0, 0>>, placeholder |-> FALSE,
   serialized |-> FALSE, serializedPlaceholder |-> FALSE,
   useObjectStreams |-> TRUE, signerInput |-> ""]
NoPayload ==
  [path |-> NoPath, data |-> NoData, pages |-> 0, cert |-> NoData,
   password |-> "", pageIndex |-> 0,
   rect |-> [x |-> 0, y |-> 0, width |-> 0, height |-> 0]]

replyNull == [NoReply EXCEPT !.kind = "null"]
replyError(message) == [NoReply EXCEPT !.kind = "error", !.error = message]
\* the handler threw: ipcRenderer.invoke rejects
replyRejected(message) == [NoReply EXCEPT !.kind = "rejected", !.error = message]
replyPath(filePath) == [NoReply EXCEPT !.kind = "value", !.path = filePath]
replySigned == [NoReply EXCEPT !.kind = "value", !.signed = TRUE]

settle(c, call, effects, reply) ==
  calls' = Put(calls, c, [call EXCEPT !.pc = "done", !.effects = @ \o effects,
                                      !.reply = reply])
suspend(c, call, pc, effects) ==
  calls' = Put(calls, c, [call EXCEPT !.pc = pc, !.effects = @ \o effects])

\* rememberWritePath
rememberWritePath(filePath) ==
  allowedWritePaths' = IF filePath = NoPath THEN allowedWritePaths
                       ELSE allowedWritePaths \cup {normalizePath(filePath)}

\* dialog:openPdf and dialog:openCertificate
dialog_open(c, call) ==
  /\ suspend(c, call, "dialog", <<"dialog">>)
  /\ UNCHANGED <<allowedWritePaths, disk>>
dialog_open_afterDialog(c, call, result) ==
  /\ IF result = NoPath THEN settle(c, call, <<>>, replyNull)
     ELSE settle(c, call, <<"read">>, replyPath(result))
  /\ UNCHANGED <<allowedWritePaths, disk>>

\* dialog:savePdf
dialog_savePdf(c, call) ==
  /\ suspend(c, call, "dialog", <<"dialog">>)
  /\ UNCHANGED <<allowedWritePaths, disk>>
dialog_savePdf_afterDialog(c, call, result) ==
  LET buffer == decodeBase64Payload(call.payload.data, MAX_PDF_BYTES, "PDF")
  IN  IF result = NoPath
      THEN /\ settle(c, call, <<>>, replyNull)
           /\ UNCHANGED <<allowedWritePaths, disk>>
      ELSE IF ~buffer.ok
      THEN /\ settle(c, call, <<"decode">>, replyRejected(buffer.error))
           /\ UNCHANGED <<allowedWritePaths, disk>>
      ELSE /\ settle(c, call, <<"decode", "write", "allow">>, replyPath(result))
           /\ disk' = Append(disk, [path |-> result.file, hdr |-> buffer.hdr])
           /\ rememberWritePath(result)

\* dialog:savePdfPath
dialog_savePdfPath(c, call) ==
  /\ suspend(c, call, "dialog", <<"dialog">>)
  /\ UNCHANGED <<allowedWritePaths, disk>>
dialog_savePdfPath_afterDialog(c, call, result) ==
  IF result = NoPath
  THEN /\ settle(c, call, <<>>, replyNull)
       /\ UNCHANGED <<allowedWritePaths, disk>>
  ELSE /\ settle(c, call, <<"allow">>, replyPath(result))
       /\ rememberWritePath(result)
       /\ UNCHANGED disk

\* a defect: the raw write does not look at the approved paths
file_writePdf_unchecked(c, call) ==
  LET filePath == call.payload.path
      data == call.payload.data
      buffer == decodeBase64Payload(data, MAX_PDF_BYTES, "PDF")
  IN  IF filePath = NoPath \/ data = NoData
      THEN /\ settle(c, call, <<>>, replyNull)
           /\ UNCHANGED <<allowedWritePaths, disk>>
      ELSE IF ~buffer.ok
      THEN /\ settle(c, call, <<"decode">>, replyRejected(buffer.error))
           /\ UNCHANGED <<allowedWritePaths, disk>>
      ELSE /\ settle(c, call, <<"decode", "write">>, replyPath(filePath))
           /\ disk' = Append(disk, [path |-> filePath.file, hdr |-> buffer.hdr])
           /\ UNCHANGED allowedWritePaths

\* file:writePdf
file_writePdf(c, call) ==
  LET filePath == call.payload.path
      data == call.payload.data
      buffer == decodeBase64Payload(data, MAX_PDF_BYTES, "PDF")
  IN  IF filePath = NoPath \/ data = NoData
      THEN /\ settle(c, call, <<>>, replyNull)
           /\ UNCHANGED <<allowedWritePaths, disk>>
      ELSE IF normalizePath(filePath) \notin allowedWritePaths
      THEN /\ settle(c, call, <<>>, replyError("Save path not approved."))
           /\ UNCHANGED <<allowedWritePaths, disk>>
      ELSE IF ~buffer.ok
      THEN /\ settle(c, call, <<"decode">>, replyRejected(buffer.error))
           /\ UNCHANGED <<allowedWritePaths, disk>>
      ELSE /\ settle(c, call, <<"decode", "write">>, replyPath(filePath))
           /\ disk' = Append(disk, [path |-> filePath.file, hdr |-> buffer.hdr])
           /\ UNCHANGED allowedWritePaths

\* a defect: a certificate is created whatever the password
cert_createSelfSigned_anyPassword(c, call) ==
  /\ suspend(c, call, "dialog", <<"dialog">>)
  /\ UNCHANGED <<allowedWritePaths, disk>>

\* cert:createSelfSigned
cert_createSelfSigned(c, call) ==
  /\ IF call.payload.password = ""
     THEN settle(c, call, <<>>, replyError("Certificate password is required."))
     ELSE suspend(c, call, "dialog", <<"dialog">>)
  /\ UNCHANGED <<allowedWritePaths, disk>>
\* outcome "throw": key generation, certificate signing, PKCS#12 encoding or
\* the file write threw, caught by the handler
cert_createSelfSigned_afterDialog(c, call, result, outcome) ==
  IF result = NoPath
  THEN /\ settle(c, call, <<>>, replyNull)
       /\ UNCHANGED <<allowedWritePaths, disk>>
  ELSE IF outcome = "throw"
  THEN /\ settle(c, call, <<"keygen">>,
                 replyError("Failed to create certificate."))
       /\ UNCHANGED <<allowedWritePaths, disk>>
  ELSE /\ settle(c, call, <<"keygen", "write", "allow">>, replyPath(result))
       /\ disk' = Append(disk, [path |-> result.file, hdr |-> FALSE])
       /\ rememberWritePath(result)

\* Math.min(Math.max(Number(pageIndex) || 0, 0), pages.length - 1)
safePageIndex(pageIndex, pages) ==
  LET floor == IF pageIndex > 0 THEN pageIndex ELSE 0
  IN  IF floor < pages - 1 THEN floor ELSE pages - 1

\* a defect: the certificate payload is not looked at before the work starts
pdf_signWithP12_anyCertificate(c, call) ==
  LET pdfBuffer == decodeBase64Payload(call.payload.data, MAX_PDF_BYTES, "PDF")
  IN  /\ IF ~pdfBuffer.ok
         THEN settle(c, call, <<"decode">>, replyError(pdfBuffer.error))
         ELSE suspend(c, call, "import", <<"decode", "import">>)
      /\ UNCHANGED <<allowedWritePaths, disk>>

\* pdf:signWithP12: decode both payloads, then await the signing modules
pdf_signWithP12(c, call) ==
  LET pdfBuffer == decodeBase64Payload(call.payload.data, MAX_PDF_BYTES, "PDF")
      certBuffer == decodeBase64Payload(call.payload.cert, MAX_CERT_BYTES,
                                        "Certificate")
  IN  /\ IF ~pdfBuffer.ok
         THEN settle(c, call, <<"decode">>, replyError(pdfBuffer.error))
         ELSE IF ~certBuffer.ok
         THEN settle(c, call, <<"decode", "decode">>,
                     replyError(certBuffer.error))
         ELSE suspend(c, call, "import", <<"decode", "decode", "import">>)
      /\ UNCHANGED <<allowedWritePaths, disk>>

\* the modules are imported: start PDFDocument.load
pdf_signWithP12_afterImport(c, call, available) ==
  /\ IF ~available
     THEN settle(c, call, <<>>, replyError("Signing modules not available."))
     ELSE suspend(c, call, "load", <<"parse">>)
  /\ UNCHANGED <<allowedWritePaths, disk>>

\* a defect: the document is serialized without a placeholder
pdf_signWithP12_afterLoad_bare(c, call, outcome) ==
  LET work == [call.work EXCEPT
                 !.page = safePageIndex(call.payload.pageIndex,
                                        call.payload.pages),
                 !.useObjectStreams = FALSE]
  IN  /\ IF outcome = "throw" \/ ~call.payload.data.hdr
         THEN settle(c, call, <<>>, replyError("Failed to sign PDF."))
         ELSE suspend(c, [call EXCEPT !.work = work], "save", <<"serialize">>)
      /\ UNCHANGED <<allowedWritePaths, disk>>

\* the document is loaded: reserve the placeholder on the target page, then
\* start pdfDoc.save({ useObjectStreams: false })
pdf_signWithP12_afterLoad(c, call, outcome) ==
  LET rect == call.payload.rect
      work == [call.work EXCEPT
                 !.page = safePageIndex(call.payload.pageIndex,
                                        call.payload.pages),
                 !.widgetRect = <<rect.x, rect.y, rect.x + rect.width,
                                  rect.y + rect.height>>,
                 !.placeholder = TRUE,
                 !.useObjectStreams = FALSE]
  IN  /\ IF outcome = "throw" \/ ~call.payload.data.hdr
         THEN settle(c, call, <<>>, replyError("Failed to sign PDF."))
         ELSE suspend(c, [call EXCEPT !.work = work], "save",
                      <<"placeholder", "serialize">>)
      /\ UNCHANGED <<allowedWritePaths, disk>>

\* the document is serialized: build the signer, start signPdf.sign over the
\* serialized bytes
pdf_signWithP12_afterSave(c, call, outcome) ==
  LET work == [call.work EXCEPT
                 !.serialized = TRUE,
                 !.serializedPlaceholder = call.work.placeholder,
                 !.signerInput = "pdfWithPlaceholder"]
  IN  /\ IF outcome = "throw"
         THEN settle(c, call, <<>>, replyError("Failed to sign PDF."))
         ELSE suspend(c, [call EXCEPT !.work = work], "sign", <<"sign">>)
      /\ UNCHANGED <<allowedWritePaths, disk>>

\* the signature is computed, or the signer threw (a wrong passphrase)
pdf_signWithP12_afterSign(c, call, outcome) ==
  /\ IF outcome = "throw"
     THEN settle(c, call, <<>>, replyError("Failed to sign PDF."))
     ELSE settle(c, call, <<>>, replySigned)
  /\ UNCHANGED <<allowedWritePaths, disk>>

Channels ==
  {"dialog:openPdf", "dialog:savePdf", "dialog:savePdfPath", "file:writePdf",
   "cert:createSelfSigned", "dialog:openCertificate", "pdf:signWithP12"}

mainFrame ==
  UNCHANGED <<renderVars, docVars, uiVars, gestureVars, procVars, pdfApi, isDev,
              handed>>

\* a defect: the handler is registered without the sender check
withTrustedSender_ungated(channel, event, payload) ==
  /\ LET c == Len(calls) + 1
         call == [channel |-> channel, event |-> event, payload |-> payload,
                  pc |-> "start", effects |-> <<>>, reply |-> NoReply,
                  work |-> NoWork]
     IN  IF FALSE
         THEN /\ settle(c, call, <<>>, replyError("Untrusted request origin."))
              /\ UNCHANGED <<allowedWritePaths, disk>>
         ELSE IF channel \in {"dialog:openPdf", "dialog:openCertificate"}
         THEN dialog_open(c, call)
         ELSE IF channel = "dialog:savePdf" THEN dialog_savePdf(c, call)
         ELSE IF channel = "dialog:savePdfPath" THEN dialog_savePdfPath(c, call)
         ELSE IF channel = "file:writePdf" THEN file_writePdf(c, call)
         ELSE IF channel = "cert:createSelfSigned"
         THEN cert_createSelfSigned(c, call)
         ELSE pdf_signWithP12(c, call)
  /\ mainFrame

\* ipcMain.handle(channel, withTrustedSender(handler)): a request arrives
withTrustedSender(channel, event, payload) ==
  /\ LET c == Len(calls) + 1
         call == [channel |-> channel, event |-> event, payload |-> payload,
                  pc |-> "start", effects |-> <<>>, reply |-> NoReply,
                  work |-> NoWork]
     IN  IF ~isTrustedSender(event)
         THEN /\ settle(c, call, <<>>, replyError("Untrusted request origin."))
              /\ UNCHANGED <<allowedWritePaths, disk>>
         ELSE IF channel \in {"dialog:openPdf", "dialog:openCertificate"}
         THEN dialog_open(c, call)
         ELSE IF channel = "dialog:savePdf" THEN dialog_savePdf(c, call)
         ELSE IF channel = "dialog:savePdfPath" THEN dialog_savePdfPath(c, call)
         ELSE IF channel = "file:writePdf" THEN file_writePdf(c, call)
         ELSE IF channel = "cert:createSelfSigned"
         THEN cert_createSelfSigned(c, call)
         ELSE pdf_signWithP12(c, call)
  /\ mainFrame

\* dialog.showOpenDialog / showSaveDialog has resolved: NoPath when it was
\* dismissed
afterDialog(c, result, outcome) ==
  /\ c \in 1..Len(calls)
  /\ calls[c].pc = "dialog"
  /\ LET call == calls[c]
     IN  IF call.channel \in {"dialog:openPdf", "dialog:openCertificate"}
         THEN dialog_open_afterDialog(c, call, result)
         ELSE IF call.channel = "dialog:savePdf"
         THEN dialog_savePdf_afterDialog(c, call, result)
         ELSE IF call.channel = "dialog:savePdfPath"
         THEN dialog_savePdfPath_afterDialog(c, call, result)
         ELSE cert_createSelfSigned_afterDialog(c, call, result, outcome)
  /\ mainFrame

\* an await of pdf:signWithP12 has settled
signStep(c, outcome) ==
  /\ c \in 1..Len(calls)
  /\ LET call == calls[c]
     IN  \/ call.pc = "import" /\ pdf_signWithP12_afterImport(c, call, outcome = "ok")
         \/ call.pc = "load" /\ pdf_signWithP12_afterLoad(c, call, outcome)
         \/ call.pc = "save" /\ pdf_signWithP12_afterSave(c, call, outcome)
         \/ call.pc = "sign" /\ pdf_signWithP12_afterSign(c, call, outcome)
  /\ mainFrame

----------------------------------------------------------------------------
(* The main process serving requests from any sender *)

\* IPC requests in one behaviour of the main-process specification
MaxCalls == 2

\* the window's own page, a frame of another site inside it, a page of
\* another site, and the development server
Senders ==
  {[senderFrame |-> AppUrl, sender |-> AppUrl],
   [senderFrame |-> ForeignUrl, sender |-> AppUrl],
   [senderFrame |-> NoUrl, sender |-> ForeignUrl],
   [senderFrame |-> devServerUrl, sender |-> devServerUrl]}

OutPath == [file |-> "out.pdf", spelling |-> 0]
Paths == {OutPath, [file |-> "out.pdf", spelling |-> 1],
          [file |-> "other.pdf", spelling |-> 0]}

\* base64 payloads: a small PDF, and an encoding one byte over each ceiling
BigPdfLength == 69905068
BigCertLength == 6990508
SmallLength == 4000
SmallPdf == [length |-> SmallLength, padding |-> 0, hdr |-> TRUE]
BigPdf == [length |-> BigPdfLength, padding |-> 0, hdr |-> TRUE]
SmallCert == [length |-> SmallLength, padding |-> 2, hdr |-> FALSE]
BigCert == [length |-> BigCertLength, padding |-> 0, hdr |-> FALSE]

Payloads(channel) ==
  IF channel = "dialog:savePdf"
  THEN {[NoPayload EXCEPT !.data = d] : d \in {NoData, SmallPdf, BigPdf}}
  ELSE IF channel = "file:writePdf"
  THEN {[NoPayload EXCEPT !.path = p, !.data = d] :
          p \in Paths \cup {NoPath}, d \in {NoData, SmallPdf, BigPdf}}
  ELSE IF channel = "cert:createSelfSigned"
  THEN {[NoPayload EXCEPT !.password = pw] : pw \in {"", "secret"}}
  ELSE IF channel = "pdf:signWithP12"
  THEN {[NoPayload EXCEPT !.data = d, !.cert = k, !.pages = 2,
                          !.pageIndex = i, !.password = "secret",
                          !.rect = [x |-> 10, y |-> 20, width |-> 200,
                                    height |-> 80]] :
          d \in {NoData, SmallPdf, BigPdf}, k \in {NoData, SmallCert, BigCert},
          i \in {0, 5}}
  ELSE {NoPayload}

InitMain == \E dev \in BOOLEAN : MountedApp(DesktopBridge) /\ Started(dev)

NextMain ==
  \/ /\ Len(calls) < MaxCalls
     /\ \E channel \in Channels, event \in Senders :
          \E payload \in Payloads(channel) :
            withTrustedSender(channel, event, payload)
  \/ \E c \in 1..Len(calls), result \in {NoPath, OutPath},
        outcome \in {"ok", "throw"} : afterDialog(c, result, outcome)
  \/ \E c \in 1..Len(calls), outcome \in {"ok", "throw"} : signStep(c, outcome)

SpecMain == InitMain /\ [][NextMain]_vars

----------------------------------------------------------------------------
(* The raw-write channel *)

\* the step starts call c or takes it further
CallStep(c) == c > Len(calls) \/ calls'[c] # calls[c]

\* the files a save dialog of this session has returned so far
SaveDialogChannels ==
  {"dialog:savePdf", "dialog:savePdfPath", "cert:createSelfSigned"}
ApprovedFiles ==
  {calls[k].reply.path.file :
     k \in {j \in 1..Len(calls) : /\ calls[j].channel \in SaveDialogChannels
                                  /\ calls[j].reply.kind = "value"}}

\* C13 as stated: every write of file:writePdf targets a file a save dialog
\* of this session returned before, and a request for any other path
\* returns an error and writes nothing.
C13_WritesOnlyApproved ==
  [][\A c \in 1..Len(calls') :
       (CallStep(c) /\ calls'[c].channel = "file:writePdf") =>
         LET call == calls'[c]
         IN  /\ disk' # disk =>
                   /\ Len(disk') = Len(disk) + 1
                   /\ disk'[Len(disk')].path \in ApprovedFiles
                   /\ disk'[Len(disk')].path = call.payload.path.file
             /\ (call.payload.path # NoPath
                   /\ call.payload.path.file \notin ApprovedFiles) =>
                   (disk' = disk /\ call.reply.kind = "error")
    ]_vars

\* C13, amended: every write of file:writePdf targets a file a save dialog
\* of this session returned before; a request for any other path writes
\* nothing, and it returns an error when it carries data and null when its
\* data is missing or empty.
C13_WritesOnlyApproved_Amended ==
  [][\A c \in 1..Len(calls') :
       (CallStep(c) /\ calls'[c].channel = "file:writePdf") =>
         LET call == calls'[c]
         IN  /\ disk' # disk =>
                   /\ Len(disk') = Len(disk) + 1
                   /\ disk'[Len(disk')].path \in ApprovedFiles
                   /\ disk'[Len(disk')].path = call.payload.path.file
             /\ (call.payload.path # NoPath
                   /\ call.payload.path.file \notin ApprovedFiles) =>
                   /\ disk' = disk
                   /\ call.reply.kind =
                        IF call.payload.data = NoData
                           /\ isTrustedSender(call.event)
                        THEN "null" ELSE "error"
    ]_vars

\* a path approved by dialog:savePdfPath was written through file:writePdf
\* under another spelling, and nothing else was written
C13_Witness ==
  /\ Len(calls) = 2 /\ Len(disk) = 1
  /\ calls[1].channel = "dialog:savePdfPath" /\ calls[1].reply.kind = "value"
  /\ calls[2].channel = "file:writePdf" /\ calls[2].reply.kind = "value"
  /\ calls[2].payload.path # calls[1].reply.path
  /\ disk[1].path = calls[1].reply.path.file

----------------------------------------------------------------------------
(* The sender check *)

UntrustedReply == replyError("Untrusted request origin.")

\* C14: on every channel, a request whose sender is not trusted is answered
\* with the error 'Untrusted request origin.' at once, and the handler body
\* does not run: the call has no effects (no dialog, read, decode, write,
\* key generation, parse or signing), the files on disk and the approved
\* paths stay as they were, and the call never goes further.
C14_UntrustedSenderRefused ==
  [][\A c \in 1..Len(calls') :
       (CallStep(c) /\ ~isTrustedSender(calls'[c].event)) =>
         /\ c > Len(calls)
         /\ calls'[c].pc = "done"
         /\ calls'[c].reply = UntrustedReply
         /\ calls'[c].effects = <<>>
         /\ calls'[c].work = NoWork
         /\ disk' = disk /\ allowedWritePaths' = allowedWritePaths
    ]_vars

\* a frame of another site asked file:writePdf to write to a path that
\* dialog:savePdfPath had approved, and was refused
C14_Witness ==
  /\ Len(calls) = 2 /\ disk = <<>>
  /\ calls[1].channel = "dialog:savePdfPath" /\ calls[1].reply.kind = "value"
  /\ calls[2].channel = "file:writePdf"
  /\ calls[2].event.senderFrame = ForeignUrl
  /\ calls[2].payload.path = calls[1].reply.path
  /\ calls[2].payload.data = SmallPdf
  /\ calls[2].reply = UntrustedReply

----------------------------------------------------------------------------
(* The size ceilings *)

\* the call carries a PDF or a certificate that decodes to more than its
\* ceiling
Oversize(call) ==
  \/ decodedLength(call.payload.data) > MAX_PDF_BYTES
  \/ decodedLength(call.payload.cert) > MAX_CERT_BYTES

HasEffect(effects, effect) == \E k \in 1..Len(effects) : effects[k] = effect

\* C15: a call whose PDF payload decodes to more than 50 MiB, or whose
\* certificate payload decodes to more than 5 MiB, never parses a document,
\* reserves a placeholder, serializes, signs or writes a file, and never
\* returns a value; once the handler has decoded its payloads the call has
\* ended with an error.
C15_OversizeRejected ==
  \A c \in 1..Len(calls) :
    Oversize(calls[c]) =>
      /\ \A k \in 1..Len(calls[c].effects) :
           calls[c].effects[k] \notin
             {"import", "parse", "placeholder", "serialize", "sign", "write",
              "allow"}
      /\ calls[c].reply.kind # "value"
      /\ calls[c].work = NoWork
      /\ HasEffect(calls[c].effects, "decode") =>
           /\ calls[c].pc = "done"
           /\ calls[c].reply.kind \in {"error", "rejected"}

\* a signing request with a certificate one byte over its ceiling was
\* answered with "Certificate is too large.", and a save request with a PDF
\* one byte over its ceiling was rejected after its dialog
C15_Witness ==
  \E c, d \in 1..Len(calls) :
    /\ calls[c].channel = "pdf:signWithP12"
    /\ calls[c].payload.data = SmallPdf /\ calls[c].payload.cert = BigCert
    /\ calls[c].reply = replyError("Certificate is too large.")
    /\ calls[d].channel = "dialog:savePdf"
    /\ calls[d].payload.data = BigPdf
    /\ calls[d].reply = replyRejected("PDF is too large.")

----------------------------------------------------------------------------
(* Signing without a certificate *)

SigningSteps == {"import", "parse", "placeholder", "serialize", "sign"}

MissingCredential == replyError("Certificate data is missing.")

\* a signing request from a trusted sender whose certificate payload is
\* missing or empty
WithoutCertificate(call) ==
  /\ call.channel = "pdf:signWithP12"
  /\ isTrustedSender(call.event)
  /\ call.payload.cert = NoData

\* C16 as stated: a signing request with an empty or missing certificate
\* payload returns the missing-credential error and never parses the PDF,
\* reserves the placeholder or invokes the signer.
C16_MissingCredential ==
  \A c \in 1..Len(calls) :
    WithoutCertificate(calls[c]) =>
      /\ calls[c].pc = "done"
      /\ calls[c].reply = MissingCredential
      /\ \A k \in 1..Len(calls[c].effects) :
           calls[c].effects[k] \notin SigningSteps

\* C16, amended: a signing request with an empty or missing certificate
\* payload returns an error and never parses the PDF, reserves the
\* placeholder or invokes the signer.  The error is the missing-credential
\* error when the PDF payload is present and within its ceiling; the PDF
\* payload is decoded first, so a missing or oversized PDF payload is
\* reported instead.
C16_MissingCredential_Amended ==
  \A c \in 1..Len(calls) :
    WithoutCertificate(calls[c]) =>
      LET pdfBuffer == decodeBase64Payload(calls[c].payload.data,
                                           MAX_PDF_BYTES, "PDF")
      IN  /\ calls[c].pc = "done"
          /\ calls[c].reply =
               IF pdfBuffer.ok THEN MissingCredential
               ELSE replyError(pdfBuffer.error)
          /\ calls[c].work = NoWork
          /\ \A k \in 1..Len(calls[c].effects) :
               calls[c].effects[k] \notin SigningSteps

\* a signing request with a PDF and no certificate got the
\* missing-credential error after both payloads were decoded
C16_Witness ==
  \E c \in 1..Len(calls) :
    /\ WithoutCertificate(calls[c])
    /\ calls[c].payload.data = SmallPdf
    /\ calls[c].effects = <<"decode", "decode">>
    /\ calls[c].reply = MissingCredential

----------------------------------------------------------------------------
(* The signing pipeline *)

SigningOrder == <<"import", "parse", "placeholder", "serialize", "sign">>

\* the pipeline steps a call has taken, in the order it took them
StepsTaken(call) == SelectSeq(call.effects, LAMBDA f : f \in SigningSteps)

\* C17: in every signing call the steps come in one order: the placeholder
\* is reserved on the target page at the given rectangle, then the document
\* is serialized with the placeholder in it and without object streams, and
\* only then the signature is computed, over those serialized bytes.  A call
\* ends either with signed bytes after all steps, or with an error and no
\* signed bytes.
C17_SigningStepsOrdered ==
  \A c \in 1..Len(calls) :
    calls[c].channel = "pdf:signWithP12" =>
      LET call == calls[c]
          steps == StepsTaken(call)
          rect == call.payload.rect
          last == call.payload.pages - 1
          page == IF call.payload.pageIndex < 0 THEN 0
                  ELSE IF call.payload.pageIndex > last THEN last
                  ELSE call.payload.pageIndex
      IN  /\ steps = SubSeq(SigningOrder, 1, Len(steps))
          /\ HasEffect(steps, "placeholder") =>
                /\ call.work.placeholder
                /\ call.work.page = page
                /\ call.work.widgetRect =
                     <<rect.x, rect.y, rect.x + rect.width,
                       rect.y + rect.height>>
          /\ HasEffect(steps, "serialize") =>
                (call.work.placeholder /\ ~call.work.useObjectStreams)
          /\ HasEffect(steps, "sign") =>
                /\ call.work.serialized /\ call.work.serializedPlaceholder
                /\ call.work.signerInput = "pdfWithPlaceholder"
          /\ call.pc = "done" =>
                \/ call.reply = replySigned /\ steps = SigningOrder
                \/ call.reply.kind = "error" /\ ~call.reply.signed

\* a request for page index 5 of a two-page document was signed on its last
\* page, and another call failed in the signer after all steps
C17_Witness ==
  \E c, d \in 1..Len(calls) :
    /\ calls[c].channel = "pdf:signWithP12" /\ calls[c].reply = replySigned
    /\ calls[c].payload.pageIndex = 5 /\ calls[c].work.page = 1
    /\ calls[d].channel = "pdf:signWithP12"
    /\ calls[d].reply.kind = "error"
    /\ StepsTaken(calls[d]) = SigningOrder

----------------------------------------------------------------------------
(* Certificate creation *)

PasswordRequired == replyError("Certificate password is required.")

\* C18: a certificate-creation request with an absent or empty passphrase
\* ends at once with an error, before any save dialog, key generation, file
\* write or change of the approved paths: the call has no effects at all.
C18_PasswordRequired ==
  \A c \in 1..Len(calls) :
    (calls[c].channel = "cert:createSelfSigned"
      /\ calls[c].payload.password = "") =>
      /\ calls[c].pc = "done"
      /\ calls[c].effects = <<>>
      /\ calls[c].reply =
           IF isTrustedSender(calls[c].event) THEN PasswordRequired
           ELSE UntrustedReply

\* a request without a passphrase was refused, and one with a passphrase
\* generated a key and wrote the certificate file
C18_Witness ==
  \E c, d \in 1..Len(calls) :
    /\ calls[c].channel = "cert:createSelfSigned"
    /\ calls[c].payload.password = ""
    /\ calls[c].reply = PasswordRequired
    /\ calls[d].channel = "cert:createSelfSigned"
    /\ calls[d].effects = <<"dialog", "keygen", "write", "allow">>
    /\ Len(disk) = 1

----------------------------------------------------------------------------
(* The PDF primitives and the signer, called with any page index and any   *)
(* field name                                                              *)

\* page indices asked for run from -1 up to MaxPageIndex
MaxPageIndex == 3
PageIndices == -1..MaxPageIndex

Primitives ==
  {"addTextToPdf", "addTextFieldToPdf", "addCheckBoxToPdf", "addSignatureToPdf"}

\* the mutation each primitive applies, as draftOp names it
primitiveKind(fn) ==
  IF fn = "addTextToPdf" THEN "text"
  ELSE IF fn = "addTextFieldToPdf" THEN TEXT_FIELD
  ELSE IF fn = "addCheckBoxToPdf" THEN "checkbox"
  ELSE SIGNATURE

FieldNames == {"A", "ghost-field"}

\* the documents a call can be given: a file, or what an earlier call returned
Documents ==
  {FormPdf, TwoPagePdf} \cup
  {calls[k].result : k \in {j \in 1..Len(calls) : "fn" \in DOMAIN calls[j]}}

pdfFrame ==
  UNCHANGED <<renderVars, docVars, uiVars, gestureVars, procVars, pdfApi,
              allowedWritePaths, disk, isDev, handed>>

\* one of the four drawing primitives is called and resolves
callPrimitive(fn, bytes, pageIndex) ==
  /\ calls' = Append(calls,
       [fn |-> fn, bytes |-> bytes, pageIndex |-> pageIndex, fieldName |-> "",
        result |-> applyOp(bytes, [NoOp EXCEPT !.kind = primitiveKind(fn),
                                               !.pageIndex = pageIndex])])
  /\ pdfFrame

\* setFormFieldValue is called and resolves
callSetFormFieldValue(bytes, fieldName, value) ==
  /\ calls' = Append(calls,
       [fn |-> "setFormFieldValue", bytes |-> bytes, pageIndex |-> 0,
        fieldName |-> fieldName,
        result |-> setFormFieldValue(bytes, fieldName, value)])
  /\ pdfFrame

\* a signing request for a document of that many pages
SignRequest(pages, pageIndex) ==
  [NoPayload EXCEPT !.data = SmallPdf, !.cert = SmallCert, !.pages = pages,
                    !.pageIndex = pageIndex, !.password = "secret",
                    !.rect = [x |-> 10, y |-> 20, width |-> 200, height |-> 80]]

InitPdf == MountedApp(DesktopBridge) /\ Started(FALSE)

NextPdf ==
  \/ /\ Len(calls) < MaxCalls
     /\ \E fn \in Primitives, bytes \in Documents, pageIndex \in PageIndices :
          callPrimitive(fn, bytes, pageIndex)
  \/ /\ Len(calls) < MaxCalls
     /\ \E bytes \in Documents, fieldName \in FieldNames :
          callSetFormFieldValue(bytes, fieldName, "v")
  \/ /\ Len(calls) < MaxCalls
     /\ \E bytes \in Documents, pageIndex \in PageIndices :
          withTrustedSender("pdf:signWithP12",
                            [senderFrame |-> AppUrl, sender |-> AppUrl],
                            SignRequest(bytes.pages, pageIndex))
  \/ \E c \in 1..Len(calls) :
       "channel" \in DOMAIN calls[c] /\ signStep(c, "ok")

SpecPdf == InitPdf /\ [][NextPdf]_vars

\* min(max(pageIndex, 0), n - 1)
ClampedPage(pageIndex, n) ==
  IF pageIndex < 0 THEN 0 ELSE IF pageIndex > n - 1 THEN n - 1 ELSE pageIndex

\* C19: for every page index and every document of n >= 1 pages, each
\* drawing primitive applies its mutation to page min(max(pageIndex, 0),
\* n - 1), and the signer reserves its placeholder on that page; an index
\* of n or more targets the last page.
C19_PageIndexClamped ==
  \A c \in 1..Len(calls) :
    IF "fn" \in DOMAIN calls[c]
    THEN calls[c].fn \in Primitives =>
           LET ops == calls[c].result.ops
           IN  /\ Len(ops) = Len(calls[c].bytes.ops) + 1
               /\ ops[Len(ops)].pageIndex =
                    ClampedPage(calls[c].pageIndex, calls[c].bytes.pages)
    ELSE HasEffect(calls[c].effects, "placeholder") =>
           calls[c].work.page =
             ClampedPage(calls[c].payload.pageIndex, calls[c].payload.pages)

\* a primitive asked for page index 3 of a two-page document drew on its
\* last page, and a signing request for index 3 of a one-page document
\* reserved its placeholder on page 0
C19_Witness ==
  \E c, d \in 1..Len(calls) :
    /\ "fn" \in DOMAIN calls[c] /\ calls[c].fn = "addCheckBoxToPdf"
    /\ calls[c].bytes = TwoPagePdf /\ calls[c].pageIndex = MaxPageIndex
    /\ calls[c].result.ops[1].pageIndex = 1
    /\ "channel" \in DOMAIN calls[d]
    /\ calls[d].payload.pages = 1 /\ calls[d].payload.pageIndex = MaxPageIndex
    /\ calls[d].reply = replySigned /\ calls[d].work.page = 0

\* C20: setFormFieldValue with a field name that does not exist in the
\* document returns exactly the bytes it was given: no mutation is applied.
C20_GhostFieldNoOp ==
  \A c \in 1..Len(calls) :
    ("fn" \in DOMAIN calls[c] /\ calls[c].fn = "setFormFieldValue"
      /\ calls[c].fieldName \notin FieldsOf(calls[c].bytes)) =>
      calls[c].result = calls[c].bytes

\* the ghost field left a document with fields unchanged, after a call that
\* did set an existing field of it
C20_Witness ==
  /\ Len(calls) = 2
  /\ "fn" \in DOMAIN calls[1] /\ calls[1].fn = "setFormFieldValue"
  /\ calls[1].bytes = FormPdf /\ calls[1].fieldName = "A"
  /\ calls[1].result # FormPdf
  /\ "fn" \in DOMAIN calls[2] /\ calls[2].fn = "setFormFieldValue"
  /\ calls[2].bytes = calls[1].result /\ calls[2].fieldName = "ghost-field"
  /\ calls[2].result = calls[2].bytes

----------------------------------------------------------------------------
(* C21 *)

\* the save dialog of export e gave no path in this step and did not fail:
\* it was dismissed
DialogDismissed(e) ==
  /\ e \in 1..Len(exports)
  /\ exports[e].pc = "savePdfPath"
  /\ exports'[e].pc # "savePdfPath"
  /\ exports'[e].savePath = ""
  /\ exports'[e].outcome # "dialog-failed"

----------------------------------------------------------------------------
(* Document sessions: from a freshly mounted App, documents are opened and   *)
(* created one after the other; drafts are placed on their pages, a text box *)
(* is dragged, and an export runs                                            *)

\* documents opened or created in one behaviour
MaxSessions == 2

InitSession == Mounted(DesktopBridge)

\* a document is opened once the pages of the one before are rendered
SessionIdle ==
  /\ renderTokenRef < MaxSessions
  /\ \A t \in 1..Len(renders) : ~PassInFlight(t)

NextSession ==
  \/ SessionIdle /\ handleOpenDialog(TwoPagePdf)
  \/ SessionIdle /\ handleNewBlank
  \/ \E t \in 1..Len(renders) : renderPdf_afterLoad(t)
  \/ \E t \in 1..Len(renders) : renderPdf_afterGetPage(t)
  \/ \E t \in 1..Len(renders) : renderPdf_afterRender(t)
  \/ \E tool \in {TEXT, CHECKBOX} : setActiveTool(tool)
  \/ draftSeq < MaxDrafts
       /\ \E k \in 1..2 : handleCanvasClick(k, R(PointX), R(PointY))
  \/ draftSeq < MaxDrafts /\ NoGesture
       /\ \E k \in 1..2 : handleViewerPointerDown(k, R(PointX), R(PointY))
  \/ handleTextPointerUp
  \/ Len(exports) < MaxExports /\ handleExport
  \/ \E e \in 1..Len(exports), result \in SavePaths \cup {"cancel"} :
       handleExport_afterSavePdfPath(e, result)
  \/ \E e \in 1..Len(exports) : handleExport_afterDraft(e, "ok")
  \/ \E e \in 1..Len(exports), path \in SavePaths :
       handleExport_afterWrite(e, "ok", path)

SpecSession == InitSession /\ [][NextSession]_vars

----------------------------------------------------------------------------
(* C22 *)

\* this step opened a document: a render pass starts although the zoom did
\* not change and no export or commit settled
DocumentOpened ==
  /\ renderTokenRef' = renderTokenRef + 1
  /\ scale' = scale
  /\ exports' = exports
  /\ commits' = commits

\* this step completed an export
ExportSucceeded ==
  \E e \in 1..Len(exports) :
    /\ exports[e].pc # "done"
    /\ exports'[e].pc = "done"
    /\ exports'[e].outcome = "ok"

\* C22: the draft list is emptied and the selection cleared by every
\* successful export, by new-blank-document and by open-document, and no draft
\* that was in the store before comes back: a draft that enters the store was
\* created in that step
C22_SessionsStartEmpty ==
  [][/\ (DocumentOpened \/ ExportSucceeded) =>
          (drafts' = <<>> /\ selectedDraftId' = 0)
     /\ \A i \in 1..Len(drafts') :
          \/ \E j \in 1..Len(drafts) : drafts[j].id = drafts'[i].id
          \/ drafts'[i].id > draftSeq]_vars

\* a blank document was created over a document that had a selected draft,
\* and nothing of it is left
C22_Witness ==
  /\ pdfBytes = BlankPdf
  /\ renderTokenRef = 2
  /\ renders[1].bytes = TwoPagePdf
  /\ draftSeq > 0
  /\ drafts = <<>>
  /\ selectedDraftId = 0
  /\ exports = <<>>

----------------------------------------------------------------------------
(* C23 *)

\* C23: no gesture state persists across a tool switch: in the step in which
\* the active tool changes, every gesture in progress (the drag-to-create of a
\* text field or of a text box, the move or resize of a draft) is back to
\* idle and its preview rectangle is cleared, so that no later pointer-up
\* acts on it
C23_ToolSwitchEndsGestures ==
  [][activeTool' # activeTool =>
       /\ textFieldDragRef' = NoDrag
       /\ textFieldDraft' = NoBox
       /\ textDragRef' = NoDrag
       /\ textDraftBox' = NoBox
       /\ dragStateRef' = NoDragState]_vars

----------------------------------------------------------------------------
(* C24 *)

\* C24: per-type minimum sizes hold in every reachable state of the store: a
\* checkbox draft is at least 18 wide and high, a text-field draft at least
\* 36 wide and high, and a free-hand text box at least 140 wide and 32 high
C24_MinimumSizes ==
  \A i \in 1..Len(drafts) :
    LET d == drafts[i]
    IN  /\ d.type = CHECKBOX =>
             /\ RLe(R(MinCheckboxSize), d.width)
             /\ RLe(R(MinCheckboxSize), d.height)
        /\ d.type = TEXT_FIELD =>
             /\ RLe(R(MinDraftSize), d.width)
             /\ RLe(R(MinDraftSize), d.height)
        /\ d.type = TEXT =>
             /\ RLe(R(MinTextWidth), d.width)
             /\ RLe(R(MinTextHeight), d.height)

----------------------------------------------------------------------------
(* C25 *)

\* C25: rescale stability: when the render scale changes from s1 to s2, the
\* rescale effect run for the change back from s2 to s1 on the store it left
\* gives every draft the x, y, width and height it had at s1 (the lengths are
\* exact rationals, so the tolerance is zero)
C25_RescaleRoundTrip ==
  [][scale' # scale =>
       LET back == rescaleDrafts(drafts', scale, scale')
       IN  /\ lastScaleRef' = scale'
           /\ Len(back) = Len(drafts)
           /\ \A i \in 1..Len(drafts) :
                /\ back[i].id = drafts[i].id
                /\ back[i].x = drafts[i].x
                /\ back[i].y = drafts[i].y
                /\ back[i].width = drafts[i].width
                /\ back[i].height = drafts[i].height]_vars

\* a text box created at the initial zoom (at (30, 30), 140 x 32), the zoom
\* changed to 0.6 and back to 1.05: the page is still shown at 0.6, where a
\* new text box would be clamped to x = 11.2, and the box is at (30, 30)
\* again
C25_Witness ==
  /\ scale = InitialScale
  /\ Len(renders) = 3
  /\ renders[2].scale = 12
  /\ renders[3].pc = "load"
  /\ ViewportAt(0).scale = 12
  /\ \E i \in 1..Len(drafts) :
       /\ drafts[i].type = TEXT
       /\ drafts[i].x = R(DragY)
       /\ drafts[i].y = R(DragY)
       /\ drafts[i].width = R(MinTextWidth)
       /\ drafts[i].height = R(MinTextHeight)

----------------------------------------------------------------------------
(* Field composition: the draft loop of an export adds text fields and check *)
(* boxes to a form, each to the output of the step before, with the names    *)
(* the drafts carry (blank or given) and the clock readings of the steps     *)

\* fields added in one behaviour, and the clock readings (milliseconds since
\* the loop began) a step can see
MaxFields == 3
MaxNow == 3

\* describeField for the two kinds of field the model holds: a text field
\* reports its text, a check box whether it is checked; the value is the one
\* the last setFormFieldValue on that name left (a new field has none)
describeField(bytes, name, type) ==
  LET sets == SelectSeq(bytes.ops, LAMBDA o : o.kind = "set" /\ o.name = name)
      value == IF sets = <<>> THEN "" ELSE sets[Len(sets)].value
  IN  IF type = "checkbox" THEN [type |-> "checkbox", value |-> (value # "")]
      ELSE [type |-> "text", value |-> value]

RECURSIVE SeqOf(_)
SeqOf(S) ==
  IF S = {} THEN <<>>
  ELSE LET x == CHOOSE y \in S : TRUE IN <<x>> \o SeqOf(S \ {x})

\* getFormFields: form.getFields() mapped to { name, type, value }; the
\* fields of the file as loaded (text fields), then those added since
getFormFields(bytes) ==
  LET loaded == SeqOf(bytes.fields)
      added == SelectSeq(bytes.ops, LAMBDA o : o.kind \in {TEXT_FIELD, CHECKBOX})
  IN  [i \in 1..(Len(loaded) + Len(added)) |->
         IF i <= Len(loaded)
         THEN [name |-> loaded[i],
               type |-> describeField(bytes, loaded[i], "text").type,
               value |-> describeField(bytes, loaded[i], "text").value]
         ELSE LET o == added[i - Len(loaded)]
                  type == IF o.kind = CHECKBOX THEN "checkbox" ELSE "text"
              IN  [name |-> o.name,
                   type |-> describeField(bytes, o.name, type).type,
                   value |-> describeField(bytes, o.name, type).value]]

\* a defect: a blank name is passed on as it is
fieldNameFor_blank(fn, name, now) == name

\* name || `TextField-${Date.now()}` and name || `Checkbox-${Date.now()}`
fieldNameFor(fn, name, now) ==
  IF name # "" THEN name
  ELSE IF fn = "addTextFieldToPdf" THEN "TextField-" \o ToString(now)
  ELSE "Checkbox-" \o ToString(now)

\* addTextFieldToPdf / addCheckBoxToPdf is called and settles: form.create...
\* takes the name, and pdf-lib rejects a name the form already has
callFieldPrimitive(fn, bytes, name, now) ==
  /\ LET fieldName == fieldNameFor(fn, name, now)
         rejected == fieldName \in FieldsOf(bytes)
     IN  calls' = Append(calls,
           [fn |-> fn, bytes |-> bytes, name |-> name, now |-> now,
            fieldName |-> fieldName, rejected |-> rejected,
            result |-> IF rejected THEN bytes
                       ELSE applyOp(bytes, [NoOp EXCEPT !.kind = primitiveKind(fn),
                                                        !.name = fieldName])])
  /\ pdfFrame

\* nextBytes of the loop: the document exported (a form, or a blank document),
\* then the output of the step before
LoopBytes ==
  IF calls = <<>> THEN {FormPdf, BlankPdf} ELSE {calls[Len(calls)].result}

\* Date.now() does not run backwards while the loop runs
ClockReadings ==
  {now \in 0..MaxNow : calls = <<>> \/ now >= calls[Len(calls)].now}

InitFields == MountedApp(DesktopBridge) /\ Started(FALSE)

NextFields ==
  /\ Len(calls) < MaxFields
  /\ \E fn \in {"addTextFieldToPdf", "addCheckBoxToPdf"}, name \in {"", "C"},
        now \in ClockReadings, bytes \in LoopBytes :
       callFieldPrimitive(fn, bytes, name, now)

SpecFields == InitFields /\ [][NextFields]_vars

----------------------------------------------------------------------------
(* C26 *)

\* C26: auto-generated field names are unique at composition time: every
\* text-field or checkbox step that is given a blank name adds its field
\* under a name no field of the document it is given has, and is not
\* rejected for a duplicate name
C26_GeneratedNamesUnique ==
  \A c \in 1..Len(calls) :
    calls[c].name = "" =>
      /\ calls[c].fieldName \notin FieldsOf(calls[c].bytes)
      /\ ~calls[c].rejected

----------------------------------------------------------------------------
(* C27 *)

\* export e runs its draft loop in this step: it resumes after the save
\* dialog gave a path, or after a composition step
LoopRuns(e) ==
  /\ exports[e].pc \in {"savePdfPath", "draft"}
  /\ exports'[e] # exports[e]
  /\ exports'[e].outcome \notin {"cancelled", "dialog-failed"}

\* the draft the loop resumes at, and the one it stops at (one past the last
\* when the loop ends)
LoopFrom(e) == IF exports[e].pc = "draft" THEN exports[e].idx + 1 ELSE 1
LoopTo(e) ==
  IF exports'[e].pc = "draft" THEN exports'[e].idx
  ELSE Len(exports[e].drafts) + 1

\* C27: when no viewport has been captured for a draft's page, its rectangle
\* resolves to null and the export skips the draft without failing: the loop
\* never calls a primitive for such a draft, it passes over it, and the
\* drafts after it are still processed, next in store order first
C27_UnresolvedDraftSkipped ==
  [][\A e \in 1..Len(exports) :
       LoopRuns(e) =>
         LET x == exports[e]
         IN  /\ LoopFrom(e) <= LoopTo(e)
             /\ exports'[e].pc = "draft" =>
                  /\ HasViewport(x.drafts[LoopTo(e)].pageIndex)
                  /\ exports'[e].op.src = x.drafts[LoopTo(e)].id
             /\ \A k \in LoopFrom(e)..(LoopTo(e) - 1) :
                  \/ ~HasViewport(x.drafts[k].pageIndex)
                  \/ x.drafts[k].type = SIGNATURE
             /\ exports'[e].outcome # "step-failed"
             /\ exports'[e].error = ""]_vars

\* an export of two drafts is complete: the first, on a page that has no
\* viewport, was skipped and the second was composited
C27_Witness ==
  \E e \in 1..Len(exports) :
    /\ exports[e].outcome = "ok"
    /\ Len(exports[e].drafts) = 2
    /\ ~HasViewport(exports[e].drafts[1].pageIndex)
    /\ exports[e].applied = <<2>>
    /\ Len(exports[e].nextBytes.ops) = 1
    /\ exports[e].nextBytes.ops[1].src = exports[e].drafts[2].id

----------------------------------------------------------------------------
(* C28 *)

\* the images embedded by the steps of export x
SignatureImages(x) ==
  {j \in 1..Len(Composited(x)) : Composited(x)[j].kind = SIGNATURE}

\* C28: a signature draft's image is composited only if the
\* include-visual-signature flag was set when the export was started: with
\* the flag cleared no step is run for a signature draft and no image is
\* embedded, while every other draft of a completed export was composited
C28_VisualSignatureOptIn ==
  \A e \in 1..Len(exports) :
    LET x == exports[e]
    IN  /\ (x.pc = "draft" /\ x.drafts[x.idx].type = SIGNATURE) =>
             x.includeVisualSignature
        /\ \A j \in 1..Len(x.applied) :
             x.drafts[x.applied[j]].type = SIGNATURE => x.includeVisualSignature
        /\ ~x.includeVisualSignature => SignatureImages(x) = {}
        /\ (~x.includeVisualSignature /\ x.outcome = "ok") =>
             \A k \in 1..Len(x.drafts) :
               x.drafts[k].type # SIGNATURE =>
                 \E j \in 1..Len(x.applied) : x.applied[j] = k

\* an export started with the flag cleared is complete: its signature draft,
\* image in hand, was left out and its other draft was composited
C28_Witness ==
  \E e \in 1..Len(exports) :
    LET x == exports[e]
    IN  /\ x.outcome = "ok"
        /\ ~x.includeVisualSignature
        /\ Len(x.drafts) = 2
        /\ \E k \in 1..2 : x.drafts[k].type = SIGNATURE /\ x.drafts[k].dataUrl
        /\ Len(x.applied) = 1
        /\ x.drafts[x.applied[1]].type # SIGNATURE

----------------------------------------------------------------------------
(* C29 *)

\* C29: round trip: an export with zero drafts (hence no signing) hands to the
\* save collaborator the very bytes it started from, runs no step and signs
\* nothing, and when it completes the in-memory document is the document the
\* export started from (with no new render pass when that is still the
\* document in memory)
C29_EmptyExportRoundTrip ==
  [][\A e \in 1..Len(exports') :
       LET x == exports'[e]
       IN  x.drafts = <<>> =>
             /\ x.nextBytes = x.pdfBytes
             /\ x.applied = <<>>
             /\ x.op = NoOp
             /\ ~x.didSign
             /\ x.pc \notin {"draft", "signPdf"}
             /\ (x.outcome = "ok" /\ (e > Len(exports) \/ exports[e].pc # "done")) =>
                  /\ pdfBytes' = x.pdfBytes
                  /\ isSigned' = isSigned
                  /\ pdfBytes = x.pdfBytes =>
                       (pdfBytes' = pdfBytes /\ renders' = renders)]_vars

\* an export with no draft is complete and was written to the chosen path;
\* the document in memory is the one it started from
C29_Witness ==
  /\ Len(disk) = 1
  /\ \E e \in 1..Len(exports) :
       /\ exports[e].outcome = "ok"
       /\ exports[e].drafts = <<>>
       /\ exports[e].savePath # ""
       /\ pdfBytes = exports[e].pdfBytes

----------------------------------------------------------------------------
(* C30 *)

\* C30: through a viewport that flips the page vertically and scales it by s,
\* on a page of PDF height H, the screen rectangle (x, y, w, h) of a draft
\* resolves to the PDF-space rectangle (x / s, H - (y + h) / s, w / s, h / s),
\* y measured from the page bottom, on the draft's page, and its width and
\* height are never negative
C30_ResolvedRect ==
  \A i \in 1..Len(drafts) :
    LET d == drafts[i]
        viewport == ViewportAt(d.pageIndex)
        s == Norm(viewport.scale, ScaleUnit)
        rect == resolveDraftRect(d)
    IN  HasViewport(d.pageIndex) =>
          /\ rect.ok
          /\ rect.pageIndex = d.pageIndex
          /\ rect.x = RDiv(d.x, s)
          /\ rect.y = RSub(R(viewport.pageH), RDiv(RAdd(d.y, d.height), s))
          /\ rect.width = RDiv(d.width, s)
          /\ rect.height = RDiv(d.height, s)
          /\ RLe(R(0), rect.width)
          /\ RLe(R(0), rect.height)

\* a checkbox placed at the initial zoom, the page since rendered at zoom 2:
\* its rectangle resolves through a viewport of scale 2 on the card
C30_Witness ==
  /\ scale = 40
  /\ ViewportAt(0).scale = 40
  /\ ViewportAt(0).pageH = CardH
  /\ \E i \in 1..Len(drafts) :
       /\ drafts[i].type = CHECKBOX
       /\ drafts[i].height = RMul(R(DefaultCheckboxSize), Norm(40, InitialScale))
       /\ resolveDraftRect(drafts[i]).ok
       /\ resolveDraftRect(drafts[i]).height = Norm(DefaultCheckboxSize * ScaleUnit, InitialScale)
       /\ RLt(resolveDraftRect(drafts[i]).y, R(CardH))

----------------------------------------------------------------------------
(* C31 *)

\* C31: compositing a single checkbox draft that has no name into a document
\* without fields yields a document whose field list holds exactly one field,
\* of type checkbox, under an auto-generated non-empty name, with value false
C31_BlankCheckboxListed ==
  \A c \in 1..Len(calls) :
    (/\ calls[c].fn = "addCheckBoxToPdf"
     /\ calls[c].name = ""
     /\ Len(getFormFields(calls[c].bytes)) = 0) =>
      LET listed == getFormFields(calls[c].result)
      IN  /\ ~calls[c].rejected
          /\ Len(listed) = 1
          /\ listed[1].type = "checkbox"
          /\ listed[1].name # ""
          /\ listed[1].name = "Checkbox-" \o ToString(calls[c].now)
          /\ listed[1].value = FALSE

\* a check box without a name was added to the blank document
C31_Witness ==
  /\ Len(calls) = 1
  /\ calls[1].fn = "addCheckBoxToPdf"
  /\ calls[1].name = ""
  /\ calls[1].bytes = BlankPdf
  /\ Len(getFormFields(calls[1].result)) = 1

----------------------------------------------------------------------------
(* Text wrapping: wrapText is applied to texts and line widths.  A text is   *)
(* the sequence of its characters: a narrow letter, a wide letter, the space *)
(* and the line feed; a width is counted in narrow letters                   *)

\* longest text, and widest line, in characters
MaxTextLen == 5
MaxLineWidth == 4

Chars == {"i", "W", " ", "\n"}

\* font.widthOfTextAtSize(line, size): the widths of the characters added up
RECURSIVE widthOfTextAtSize(_)
widthOfTextAtSize(line) ==
  IF line = <<>> THEN 0
  ELSE (IF Head(line) = "W" THEN 2 ELSE 1) + widthOfTextAtSize(Tail(line))

\* text.split('\n'), from position i on with the piece cur begun
RECURSIVE splitLines(_, _, _)
splitLines(text, i, cur) ==
  IF i > Len(text) THEN <<cur>>
  ELSE IF text[i] = "\n" THEN <<cur>> \o splitLines(text, i + 1, <<>>)
  ELSE splitLines(text, i + 1, Append(cur, text[i]))

\* paragraph.split(/\s+/).filter(Boolean), from position i on with the word
\* cur begun
RECURSIVE splitWords(_, _, _)
splitWords(paragraph, i, cur) ==
  LET done == IF cur = <<>> THEN <<>> ELSE <<cur>>
  IN  IF i > Len(paragraph) THEN done
      ELSE IF paragraph[i] \in {" ", "\n"}
      THEN done \o splitWords(paragraph, i + 1, <<>>)
      ELSE splitWords(paragraph, i + 1, Append(cur, paragraph[i]))

\* a defect: every word is appended to the line, however wide it gets
RECURSIVE wrapWords_joining(_, _, _, _, _)
wrapWords_joining(words, k, line, lines, maxWidth) ==
  IF k > Len(words) THEN [line |-> line, lines |-> lines]
  ELSE LET word == words[k]
           testLine == IF line # <<>> THEN line \o <<" ">> \o word ELSE word
       IN  wrapWords_joining(words, k + 1, testLine, lines, maxWidth)

\* words.forEach of wrapText from word k on: the line being filled and the
\* lines pushed so far
RECURSIVE wrapWords(_, _, _, _, _)
wrapWords(words, k, line, lines, maxWidth) ==
  IF k > Len(words) THEN [line |-> line, lines |-> lines]
  ELSE LET word == words[k]
           testLine == IF line # <<>> THEN line \o <<" ">> \o word ELSE word
       IN  IF widthOfTextAtSize(testLine) > maxWidth /\ line # <<>>
           THEN wrapWords(words, k + 1, word, Append(lines, line), maxWidth)
           ELSE wrapWords(words, k + 1, testLine, lines, maxWidth)

\* paragraphs.forEach of wrapText from paragraph index on
RECURSIVE wrapParagraphs(_, _, _, _)
wrapParagraphs(paragraphs, index, lines, maxWidth) ==
  IF index > Len(paragraphs) THEN lines
  ELSE LET paragraph == paragraphs[index]
           r == wrapWords(splitWords(paragraph, 1, <<>>), 1, <<>>, lines, maxWidth)
           pushed == IF r.line # <<>> \/ paragraph = <<>>
                     THEN Append(r.lines, r.line) ELSE r.lines
           spaced == IF index < Len(paragraphs) THEN Append(pushed, <<>>)
                     ELSE pushed
       IN  wrapParagraphs(paragraphs, index + 1, spaced, maxWidth)

\* wrapText(text, font, size, maxWidth)
wrapText(text, maxWidth) ==
  IF text = <<>> THEN << <<>> >>
  ELSE IF maxWidth = 0 THEN splitLines(text, 1, <<>>)
  ELSE wrapParagraphs(splitLines(text, 1, <<>>), 1, <<>>, maxWidth)

\* addTextToPdf wraps the text of a draft; handleExport gives it a positive
\* maxWidth (at least 40 points)
callWrapText(text, maxWidth) ==
  /\ calls' = Append(calls,
       [fn |-> "wrapText", text |-> text, maxWidth |-> maxWidth,
        lines |-> wrapText(text, maxWidth)])
  /\ pdfFrame

Texts == UNION {[1..n -> Chars] : n \in 0..MaxTextLen}

InitWrap == MountedApp(DesktopBridge) /\ Started(FALSE)

NextWrap ==
  /\ calls = <<>>
  /\ \E text \in Texts, maxWidth \in 1..MaxLineWidth : callWrapText(text, maxWidth)

SpecWrap == InitWrap /\ [][NextWrap]_vars

----------------------------------------------------------------------------
(* C32 *)

\* the words of a sequence of lines (or paragraphs), in order
RECURSIVE WordsIn(_)
WordsIn(lines) ==
  IF lines = <<>> THEN <<>>
  ELSE splitWords(Head(lines), 1, <<>>) \o WordsIn(Tail(lines))

\* C32: text wrapping is word-boundary wrapping: the words of the paragraphs
\* appear in the output lines in their original order and none is split
\* across lines (the lines' words are the text's words), and every output line
\* fits within the maximum width or is a single word that alone exceeds it
C32_WordBoundaryWrapping ==
  \A c \in 1..Len(calls) :
    LET text == calls[c].text
        lines == calls[c].lines
    IN  /\ WordsIn(lines) = WordsIn(splitLines(text, 1, <<>>))
        /\ \A j \in 1..Len(lines) :
             /\ \A k \in 1..Len(lines[j]) : lines[j][k] # "\n"
             /\ \/ widthOfTextAtSize(lines[j]) <= calls[c].maxWidth
                \/ /\ Len(splitWords(lines[j], 1, <<>>)) = 1
                   /\ lines[j] = splitWords(lines[j], 1, <<>>)[1]

\* a text of two words was wrapped after the first, and the second, alone on
\* its line, is wider than the maximum width
C32_Witness ==
  \E c \in 1..Len(calls) :
    /\ Len(WordsIn(<<calls[c].text>>)) = 2
    /\ Len(calls[c].lines) = 2
    /\ widthOfTextAtSize(calls[c].lines[1]) <= calls[c].maxWidth
    /\ widthOfTextAtSize(calls[c].lines[2]) > calls[c].maxWidth

----------------------------------------------------------------------------
(* C33 *)

\* this step is the final state update of export e
ExportFinishes(e) ==
  /\ e \in 1..Len(exports)
  /\ exports[e].pc # "done"
  /\ exports'[e].pc = "done"
  /\ exports'[e].outcome = "ok"

\* C33: an export started on one document never replaces a document opened or
\* created while it was in flight: when the open document is no longer the one
\* the export captured, the export's final state update leaves the in-memory
\* bytes, the drafts and the signed flag of the newer document alone
C33_ExportKeepsNewerDocument ==
  [][\A e \in 1..Len(exports) :
       (ExportFinishes(e) /\ pdfBytes.doc # exports[e].pdfBytes.doc) =>
         /\ pdfBytes' = pdfBytes
         /\ drafts' = drafts
         /\ isSigned' = isSigned]_vars

----------------------------------------------------------------------------
(* C34 *)

\* C34: no pending edit is lost by an export: every text, text-field or
\* checkbox draft that the final state update of a successful export removes
\* from the store was applied, as it stands in the store, to the exported
\* bytes; this covers the drafts added or modified while the export was in
\* flight and the drafts whose page had no captured viewport
C34_NoEditLostByExport ==
  [][\A e \in 1..Len(exports) :
       ExportFinishes(e) =>
         \A i \in 1..Len(drafts) :
           (/\ drafts[i].type \in {TEXT, TEXT_FIELD, CHECKBOX}
            /\ \A j \in 1..Len(drafts') : drafts'[j].id # drafts[i].id) =>
             \E k \in 1..Len(exports'[e].applied) :
               exports[e].drafts[exports'[e].applied[k]] = drafts[i]]_vars

----------------------------------------------------------------------------
(* C35 *)

\* C35: an export that awaited the save collaborator (file:writePdf or
\* dialog:savePdf) reports success, replaces the in-memory document and clears
\* the drafts only if the final bytes were actually written: its final state
\* update happens only in a step in which a file was written
C35_SuccessOnlyIfWritten ==
  [][\A e \in 1..Len(exports) :
       (ExportFinishes(e) /\ exports[e].pc \in {"writePdf", "savePdf"}) =>
         Len(disk') = Len(disk) + 1]_vars

----------------------------------------------------------------------------
(* C36 *)

\* the value of field fieldName was set in bytes
ValueSet(bytes, fieldName, value) ==
  \E k \in 1..Len(bytes.ops) :
    /\ bytes.ops[k].kind = "set"
    /\ bytes.ops[k].name = fieldName
    /\ bytes.ops[k].value = value

\* C36: form-field commits are never lost: when field A was committed and
\* then field B, and both asynchronous commits have completed (no export took
\* part), the in-memory document contains both new values, whatever the order
\* in which the two commits resolved
C36_CommitsNeverLost ==
  \A a, b \in 1..Len(commits) :
    (/\ a < b
     /\ commits[a].name = "A" /\ commits[b].name = "B"
     /\ \A c \in 1..Len(commits) : commits[c].pc = "done"
     /\ exports = <<>>) =>
      /\ ValueSet(pdfBytes, "A", commits[a].value)
      /\ ValueSet(pdfBytes, "B", commits[b].value)

----------------------------------------------------------------------------
(* C37 *)

\* C37: the viewport through which a draft is created or resolved was
\* captured at the render scale of the draft's stored geometry: a zoom change
\* leaves the PDF-space rectangle every draft resolves to (as an export would
\* resolve it before the page is rendered again) as it was, and a draft that
\* enters the store was placed through a viewport of the current scale
C37_ViewportMatchesGeometry ==
  [][/\ scale' # scale =>
          \A i \in 1..Len(drafts) :
            resolveDraftRect(drafts[i])' = resolveDraftRect(drafts[i])
     /\ Len(drafts') = Len(drafts) + 1 =>
          ViewportAt(drafts'[Len(drafts')].pageIndex).scale = scale]_vars

----------------------------------------------------------------------------
(* Payload sizes: decodeBase64Payload is applied to padded base64 payloads   *)
(* whose decoded size lies around each ceiling                               *)

\* how many 4-character groups the payloads are shorter or longer than the
\* encoding of exactly maxBytes bytes
PayloadSlack == 8

\* the 4-character groups of the padded encoding of n bytes
encodedGroups(n) == (n + 2) \div 3

PayloadsAround(maxBytes) ==
  {[length |-> 4 * g, padding |-> p, hdr |-> TRUE] :
     g \in (encodedGroups(maxBytes) - PayloadSlack)
             ..(encodedGroups(maxBytes) + PayloadSlack),
     p \in 0..2}

\* one call of decodeBase64Payload(data, maxBytes, label)
callDecodeBase64Payload(data, maxBytes, label) ==
  /\ calls' = Append(calls,
       [fn |-> "decodeBase64Payload", data |-> data, maxBytes |-> maxBytes,
        result |-> decodeBase64Payload(data, maxBytes, label)])
  /\ pdfFrame

InitPayload == MountedApp(DesktopBridge) /\ Started(FALSE)

NextPayload ==
  /\ calls = <<>>
  /\ \/ \E data \in PayloadsAround(MAX_PDF_BYTES) :
          callDecodeBase64Payload(data, MAX_PDF_BYTES, "PDF")
     \/ \E data \in PayloadsAround(MAX_CERT_BYTES) :
          callDecodeBase64Payload(data, MAX_CERT_BYTES, "Certificate")

SpecPayload == InitPayload /\ [][NextPayload]_vars

----------------------------------------------------------------------------
(* C38 *)

\* C38: the payload size check rejects only oversized payloads: a base64
\* payload whose decoded size is at most the ceiling (50 MiB for PDFs, 5 MiB
\* for certificates), exactly the ceiling included, is decoded and not
\* rejected as too large, whatever its decoded length and padding
C38_RejectsOnlyOversized ==
  \A c \in 1..Len(calls) :
    decodedLength(calls[c].data) <= calls[c].maxBytes =>
      /\ calls[c].result.ok
      /\ calls[c].result.length = decodedLength(calls[c].data)

----------------------------------------------------------------------------
(* Gestures: in the desktop app, drafts are placed, moved, resized and       *)
(* removed while the document is exported or replaced by a blank one         *)

InitGesture == Opened(DesktopBridge, CardPdf)

NextGesture ==
  \/ SessionIdle /\ handleNewBlank
  \/ \E t \in 1..Len(renders) : renderPdf_afterLoad(t)
  \/ \E t \in 1..Len(renders) : renderPdf_afterGetPage(t)
  \/ \E t \in 1..Len(renders) : renderPdf_afterRender(t)
  \/ setActiveTool(CHECKBOX)
  \/ draftSeq < MaxDrafts /\ handleCanvasClick(1, R(PointX), R(PointY))
  \/ \E i \in 1..Len(drafts), handle \in DragHandles :
       ~dragStateRef.active /\ handleDraftPointerDown(i, handle)
  \/ handleDraftPointerMove(R(FarDrag), R(FarDrag))
  \/ handleDraftPointerUp
  \/ \E i \in 1..Len(drafts) : removeDraft(drafts[i].id)
  \/ Len(exports) < MaxExports /\ handleExport
  \/ \E e \in 1..Len(exports), result \in SavePaths :
       handleExport_afterSavePdfPath(e, result)
  \/ \E e \in 1..Len(exports) : handleExport_afterDraft(e, "ok")
  \/ \E e \in 1..Len(exports), path \in SavePaths :
       handleExport_afterWrite(e, "ok", path)

SpecGesture == InitGesture /\ [][NextGesture]_vars

----------------------------------------------------------------------------
(* C39 *)

\* C39: a removed draft is never resurrected: whatever the step (a
\* pointer-move of a move or resize gesture whose draft was removed, or whose
\* list was cleared by an export or a new document, included), every draft of
\* the list was in it before the step or has a fresh id; and the selected
\* draft id is null or the id of a draft in the list
C39_NoResurrection ==
  [][/\ \A i \in 1..Len(drafts') :
          \/ \E j \in 1..Len(drafts) : drafts[j].id = drafts'[i].id
          \/ drafts'[i].id = draftSeq + 1
     /\ \/ selectedDraftId' = 0
        \/ \E i \in 1..Len(drafts') : drafts'[i].id = selectedDraftId']_vars

\* a move or resize gesture is still active on a draft that is no longer in
\* the list, which holds a draft placed after it
C39_Witness ==
  /\ dragStateRef.active
  /\ dragStateRef.id > 0
  /\ \A i \in 1..Len(drafts) : drafts[i].id # dragStateRef.id
  /\ \E i \in 1..Len(drafts) : drafts[i].id > dragStateRef.id

====
